---- MODULE Spec2Model ----
(***************************************************************************)
(* QuickQuotes: the quote lifecycle of the dashboard (DashboardScreen.js), *)
(* the quote form that feeds it through navigation params                  *)
(* (QuoteFormScreen) and the key-value store it persists to.               *)
(*                                                                         *)
(* Conventions of the translation                                          *)
(*  - a date 'YYYY-MM-DD' is a day number; 0 stands for an absent field    *)
(*    (undefined); today is the wall clock's day, read once per handler;   *)
(*  - an id `d${Date.now()}` / `s${Date.now()}` is <<prefix, n>>, n a      *)
(*    fresh clock reading (distinct readings are distinct);                *)
(*  - isPaid absent (undefined) and isPaid false are both FALSE: the code  *)
(*    only tests its truthiness;                                           *)
(*  - sentDates absent and sentDates empty are both <<>>;                  *)
(*  - the quote keeps one content field, contact (phoneNumber / email);    *)
(*  - React state: `quotes` is the latest state, `rendered` is what the    *)
(*    closures of the last committed render captured.  A handler computes  *)
(*    from `rendered` and applies its update to `quotes`.                  *)
(*                                                                         *)
(* Specifications                                                          *)
(*  - Spec: the application as the user drives it;                         *)
(*  - SpecOneSend: Spec without a second Send while one is in progress;    *)
(*  - SpecStale: SpecOneSend plus presses that share one render's closures;*)
(*  - SpecCall: Spec plus the handlers called directly with any id, and    *)
(*    resetQuotes.                                                         *)
(*  - SpecScreens, SpecFail: Spec plus leaving and re-entering the         *)
(*    dashboard, and plus storage operations that fail;                    *)
(*  - SpecPricing, SpecReports, SpecInvite, SpecRoundTrip: the pure        *)
(*    calculations, each applied to inputs drawn from bounded sets;        *)
(*  - SpecJoin: TeamJoinScreen against the invitation table;               *)
(*  - SpecTeam: TeamScreen's addTeamMember, up to MaxCalls calls at once;  *)
(*  - SpecMain: the tab bar with the role gate over the quote form;        *)
(*  - SpecGuards: the owner's and the invited member's handlers in turns.  *)
(***************************************************************************)
EXTENDS Naturals, Sequences, FiniteSets, TLC

VARIABLES
    quotes,         \* useState(initialMockData): stage -> sequence of quotes
    activeTab,      \* useState('Draft')
    rendered,       \* [quotes, activeTab] captured by the last render's closures
    isInitialized,  \* useState(false)
    storage,        \* AsyncStorage value under 'quickquote_data'
    ioq,            \* storage operations issued and not yet completed (FIFO)
    params,         \* route.params of Main: [action, quote, fromDraftId]
    form,           \* QuoteFormScreen: [open, initialQuote, contactInfo, formModified]
    inflight,       \* handleSendQuote calls awaiting generateQuotePDF
    nextId,         \* number of Date.now() readings used for ids so far
    today,          \* the clock's calendar day
    alert,          \* the Alert.alert dialog of the last user action ("none": it showed none)
    call,           \* outcome of the last handler called directly: [outcome, n]
    activeScreen,   \* MainScreen useState('dashboard'): the screen under the tab bar
    logged,         \* the last console.error of a storage operation: [msg, n]
    calc,           \* argument and result of the pure function under study
    userRole,       \* MainScreen useState('team_member') and the profile fetch
    supabase,       \* the backend tables: invited_team_members, users
    join,           \* TeamJoinScreen state
    team            \* TeamScreen state

vars == <<quotes, activeTab, rendered, isInitialized, storage, ioq, params,
          form, inflight, nextId, today, alert, call, activeScreen, logged,
          calc, userRole, supabase, join, team>>

\* the dashboard, the quote form and the calculation under study
dashVars == <<quotes, activeTab, rendered, isInitialized, storage, ioq, params,
              form, inflight, nextId, today, alert, call, activeScreen, logged,
              calc>>

\* the role, the backend and the team screens
side == <<userRole, supabase, join, team>>

\* the variables the dashboard's own handlers never touch
aux == <<activeScreen, logged, calc, side>>

\* everything but the calculation under study
appVars == <<quotes, activeTab, rendered, isInitialized, storage, ioq, params,
             form, inflight, nextId, today, alert, call, activeScreen, logged,
             side>>

----------------------------------------------------------------------------
\* Bounds of the model
MaxQuotes == 1
MaxDay == 2         \* days the clock runs through
MaxInflight == 2    \* concurrent handleSendQuote calls
MaxPending == 1     \* storage operations in flight
MaxSent == 3        \* length of sentDates

----------------------------------------------------------------------------
\* Data

tabs == <<"Draft", "Sent", "Accepted", "Scheduled Work", "Complete">>

StageSet == {tabs[i] : i \in DOMAIN tabs}

initialMockData == [s \in StageSet |-> <<>>]

NoId == <<"", 0>>

NoQuote ==
    [id |-> NoId, contact |-> "", date |-> 0, sentDates |-> <<>>,
     acceptedDate |-> 0, depositDate |-> 0, completedDate |-> 0,
     finalPaymentDate |-> 0, isPaid |-> FALSE]

\* no pure function is under study
NoCalc == [fn |-> "none"]

NoParams == [action |-> "null", quote |-> NoQuote, fromDraftId |-> NoId]

ClosedForm ==
    [open |-> FALSE, initialQuote |-> NoQuote, contactInfo |-> "",
     formModified |-> FALSE]

ContactValues == {"", " ", "c"}

\* String.prototype.trim on the contact values of the model
Trim(s) == IF s = " " THEN "" ELSE s

\* MainScreen: useState('team_member'); profile is the state of the fetch
MainScreenRole == [role |-> "team_member", profile |-> "pending"]

EmptyBackend == [invited_team_members |-> <<>>, users |-> {}]

\* TeamJoinScreen after construction; at is the position in an async handler,
\* matched and via are history: the invitation row (0: none) the email was
\* resolved to, and the query that resolved it
TeamJoinScreenInit ==
    [email |-> <<>>, password |-> <<>>, confirmPassword |-> <<>>, step |-> 1,
     teamInviteFound |-> FALSE, businessId |-> "null", debugMode |-> FALSE,
     at |-> "idle", alert |-> "none", matched |-> 0, via |-> "none"]

\* TeamScreen of the owner of business b1, profile loaded; calls are the
\* addTeamMember calls in progress
TeamScreenInit ==
    [teamMembers |-> <<>>, name |-> <<>>, email |-> <<>>, businessId |-> "b1",
     calls |-> <<>>, alert |-> "none"]

AnyIds == {<<p, n>> : p \in {"d", "s"}, n \in 1..MaxQuotes}

\* Array.prototype.find(quote => quote.id === quoteId): index of the first match, 0 if none
FindIndex(seq, quoteId) ==
    IF \E i \in DOMAIN seq : seq[i].id = quoteId
    THEN CHOOSE i \in DOMAIN seq :
            /\ seq[i].id = quoteId
            /\ \A j \in 1..(i - 1) : seq[j].id # quoteId
    ELSE 0

\* Array.prototype.filter(quote => quote.id !== quoteId)
FilterOut(seq, quoteId) == SelectSeq(seq, LAMBDA q : q.id # quoteId)

\* Array.prototype.map(quote => quote.id === quoteId ? updated : quote)
MapReplace(seq, quoteId, updated) ==
    [i \in DOMAIN seq |-> IF seq[i].id = quoteId THEN updated ELSE seq[i]]

RemoveAt(seq, i) == SubSeq(seq, 1, i - 1) \o SubSeq(seq, i + 1, Len(seq))

----------------------------------------------------------------------------
\* Init: the state after MainScreen and DashboardScreen are constructed, on a
\* fresh install (nothing stored); the load effect has issued its getItem.

DashInit ==
    /\ quotes = initialMockData
    /\ activeTab = "Draft"
    /\ rendered = [quotes |-> initialMockData, activeTab |-> "Draft"]
    /\ isInitialized = FALSE
    /\ storage = [present |-> FALSE, val |-> initialMockData]
    /\ ioq = <<[op |-> "get", val |-> initialMockData]>>
    /\ params = NoParams
    /\ form = ClosedForm
    /\ inflight = <<>>
    /\ nextId = 0
    /\ today = 1
    /\ alert = "none"
    /\ call = [outcome |-> "none", n |-> 0]
    /\ activeScreen = "dashboard"
    /\ logged = [msg |-> "none", n |-> 0]

\* the state after construction with no invitation in the backend
AppInit ==
    /\ DashInit
    /\ userRole = MainScreenRole
    /\ supabase = EmptyBackend
    /\ join = TeamJoinScreenInit
    /\ team = TeamScreenInit

Init == AppInit /\ calc = NoCalc

----------------------------------------------------------------------------
\* State computed by each handler.  snap is the `quotes` its closure captured,
\* prev the latest state (the argument of a functional setQuotes), day is
\* new Date().toISOString().split('T')[0].

\* resendQuote: setQuotes(prevQuotes => ({...prevQuotes, Sent: updatedSent}))
resentState(snap, prev, quoteId, day) ==
    LET quoteToResend == snap["Sent"][FindIndex(snap["Sent"], quoteId)]
        updatedQuote ==
            [quoteToResend EXCEPT !.sentDates =
                (IF quoteToResend.sentDates = <<>>
                 THEN <<quoteToResend.date>>
                 ELSE quoteToResend.sentDates) \o <<day>>]
    IN  [prev EXCEPT !["Sent"] = MapReplace(snap["Sent"], quoteId, updatedQuote)]

\* acceptQuote without `updatedState.Accepted = [acceptedQuote, ...]`
acceptedStateDropped(snap, prev, quoteId, day) ==
    [snap EXCEPT !["Sent"] = FilterOut(snap["Sent"], quoteId)]

\* acceptQuote: setQuotes(updatedState), updatedState = {...quotes}
acceptedState(snap, prev, quoteId, day) ==
    LET quoteToAccept == snap["Sent"][FindIndex(snap["Sent"], quoteId)]
        acceptedQuote == [quoteToAccept EXCEPT !.acceptedDate = day]
    IN  [snap EXCEPT !["Accepted"] = <<acceptedQuote>> \o snap["Accepted"],
                     !["Sent"] = FilterOut(snap["Sent"], quoteId)]

\* markDepositPaid without the filter of updatedState.Accepted
depositPaidStateKept(snap, prev, quoteId, day) ==
    LET quoteToUpdate == snap["Accepted"][FindIndex(snap["Accepted"], quoteId)]
        updatedQuote == [quoteToUpdate EXCEPT !.depositDate = day]
    IN  [snap EXCEPT !["Scheduled Work"] = <<updatedQuote>> \o snap["Scheduled Work"]]

\* markDepositPaid: setQuotes(updatedState)
depositPaidState(snap, prev, quoteId, day) ==
    LET quoteToUpdate == snap["Accepted"][FindIndex(snap["Accepted"], quoteId)]
        updatedQuote == [quoteToUpdate EXCEPT !.depositDate = day]
    IN  [snap EXCEPT !["Scheduled Work"] = <<updatedQuote>> \o snap["Scheduled Work"],
                     !["Accepted"] = FilterOut(snap["Accepted"], quoteId)]

\* markWorkComplete: setQuotes(updatedState)
workCompleteState(snap, prev, quoteId, day) ==
    LET quoteToUpdate ==
            snap["Scheduled Work"][FindIndex(snap["Scheduled Work"], quoteId)]
        updatedQuote ==
            [quoteToUpdate EXCEPT !.completedDate = day, !.isPaid = FALSE]
    IN  [snap EXCEPT !["Complete"] = <<updatedQuote>> \o snap["Complete"],
                     !["Scheduled Work"] = FilterOut(snap["Scheduled Work"], quoteId)]

\* markFinalPayment: setQuotes(prevQuotes => ({...prevQuotes, Complete: updatedComplete}))
finalPaymentState(snap, prev, quoteId, day) ==
    LET quoteToUpdate == snap["Complete"][FindIndex(snap["Complete"], quoteId)]
        updatedQuote ==
            [quoteToUpdate EXCEPT !.finalPaymentDate = day, !.isPaid = TRUE]
    IN  [prev EXCEPT !["Complete"] = MapReplace(snap["Complete"], quoteId, updatedQuote)]

\* deleteQuote: setQuotes(prevQuotes => ({...prevQuotes, Draft: updatedDrafts}))
deletedState(snap, prev, quoteId) ==
    [prev EXCEPT !["Draft"] = FilterOut(snap["Draft"], quoteId)]

\* useFocusEffect, action 'add_draft'
addDraftState(snap, prev, newQuote) ==
    [prev EXCEPT !["Draft"] = <<newQuote>> \o snap["Draft"]]

\* useFocusEffect, action 'update_draft'
updateDraftState(snap, prev, updatedQuote) ==
    [prev EXCEPT !["Draft"] = MapReplace(snap["Draft"], updatedQuote.id, updatedQuote)]

\* 'send_quote' without the removal of the originating draft
sendQuoteStateKeepsDraft(snap, prev, sentQuote, fromDraftId) ==
    [snap EXCEPT !["Sent"] = <<sentQuote>> \o snap["Sent"]]

\* useFocusEffect, action 'send_quote': setQuotes(updatedState)
sendQuoteState(snap, prev, sentQuote, fromDraftId) ==
    [snap EXCEPT !["Sent"] = <<sentQuote>> \o snap["Sent"],
                 !["Draft"] = IF fromDraftId # NoId
                              THEN FilterOut(snap["Draft"], fromDraftId)
                              ELSE snap["Draft"]]

----------------------------------------------------------------------------
\* React plumbing

\* the save effect writing the `quotes` of the render before the change
\* the save effect without its isInitialized test
saveEffectAlways(queue, q) == Append(queue, [op |-> "set", val |-> q])

\* The save effect run at a commit: if (isInitialized) setItem(quotes)
saveEffect(queue, q) ==
    IF isInitialized THEN Append(queue, [op |-> "set", val |-> q]) ELSE queue

saveQuotesStale(q) ==
    IF isInitialized THEN Append(ioq, [op |-> "set", val |-> quotes]) ELSE ioq

\* The save effect (deps [quotes, isInitialized]): setItem(JSON.stringify(quotes))
\* issued at the commit of a render in which `quotes` is a new object.
saveQuotes(q) == saveEffect(ioq, q)

\* setQuotes + setActiveTab of one handler.  sync: the re-render (and with it
\* the save effect) is committed before anything else runs.
SetQuotes(newQuotes, newTab, sync) ==
    /\ isInitialized => Len(ioq) < MaxPending
    /\ quotes' = newQuotes
    /\ activeTab' = newTab
    /\ IF sync
       THEN /\ rendered' = [quotes |-> newQuotes, activeTab |-> newTab]
            /\ ioq' = saveQuotes(newQuotes)
       ELSE UNCHANGED <<rendered, ioq>>

\* The focus callback has work to do: it runs as soon as the render commits.
EffectPending ==
    /\ isInitialized
    /\ ~form.open
    /\ params.action \in {"add_draft", "update_draft", "send_quote"}
    /\ params.quote # NoQuote

\* The dashboard is mounted, on screen and idle, so a press can reach it.
Visible == activeScreen = "dashboard" /\ ~form.open /\ ~EffectPending

formVars == <<params, form, inflight, nextId>>

----------------------------------------------------------------------------
\* Dashboard handlers (DashboardScreen.js)

resendQuote(quoteId, sync) ==
    LET snap == rendered.quotes
        i == FindIndex(snap["Sent"], quoteId)
    IN  IF i # 0
        THEN /\ Len(snap["Sent"][i].sentDates) < MaxSent
             /\ SetQuotes(resentState(snap, quotes, quoteId, today), activeTab, sync)
             /\ alert' = "Quote resent successfully!"
             /\ UNCHANGED <<isInitialized, storage, formVars, today>>
        ELSE /\ alert' = "none"
             /\ UNCHANGED <<quotes, activeTab, rendered, isInitialized, storage,
                            ioq, formVars, today>>

acceptQuote(quoteId, sync) ==
    LET snap == rendered.quotes IN
    IF FindIndex(snap["Sent"], quoteId) # 0
    THEN /\ SetQuotes(acceptedState(snap, quotes, quoteId, today), "Accepted", sync)
         /\ alert' = "Quote marked as accepted!"
         /\ UNCHANGED <<isInitialized, storage, formVars, today>>
    ELSE /\ alert' = "none"
         /\ UNCHANGED <<quotes, activeTab, rendered, isInitialized, storage,
                        ioq, formVars, today>>

markDepositPaid(quoteId, sync) ==
    LET snap == rendered.quotes IN
    IF FindIndex(snap["Accepted"], quoteId) # 0
    THEN /\ SetQuotes(depositPaidState(snap, quotes, quoteId, today),
                      "Scheduled Work", sync)
         /\ alert' = "Deposit marked as paid!"
         /\ UNCHANGED <<isInitialized, storage, formVars, today>>
    ELSE /\ alert' = "none"
         /\ UNCHANGED <<quotes, activeTab, rendered, isInitialized, storage,
                        ioq, formVars, today>>

markWorkComplete(quoteId, sync) ==
    LET snap == rendered.quotes IN
    IF FindIndex(snap["Scheduled Work"], quoteId) # 0
    THEN /\ SetQuotes(workCompleteState(snap, quotes, quoteId, today),
                      "Complete", sync)
         /\ alert' = "Work marked as complete!"
         /\ UNCHANGED <<isInitialized, storage, formVars, today>>
    ELSE /\ alert' = "none"
         /\ UNCHANGED <<quotes, activeTab, rendered, isInitialized, storage,
                        ioq, formVars, today>>

markFinalPayment(quoteId, sync) ==
    LET snap == rendered.quotes IN
    IF FindIndex(snap["Complete"], quoteId) # 0
    THEN /\ SetQuotes(finalPaymentState(snap, quotes, quoteId, today),
                      activeTab, sync)
         /\ alert' = "Final payment marked as received!"
         /\ UNCHANGED <<isInitialized, storage, formVars, today>>
    ELSE /\ alert' = "none"
         /\ UNCHANGED <<quotes, activeTab, rendered, isInitialized, storage,
                        ioq, formVars, today>>

deleteQuote(quoteId, sync) ==
    IF rendered.activeTab = "Draft"
    THEN /\ SetQuotes(deletedState(rendered.quotes, quotes, quoteId), activeTab, sync)
         /\ alert' = "none"
         /\ UNCHANGED <<isInitialized, storage, formVars, today>>
    ELSE /\ alert' = "none"
         /\ UNCHANGED <<quotes, activeTab, rendered, isInitialized, storage,
                        ioq, formVars, today>>

----------------------------------------------------------------------------
\* The cards of the list (renderItem, QuoteCard.js): a handler is passed to a
\* card only on its tab, and a press calls it with the card's quote id.

Cards == rendered.quotes[rendered.activeTab]

\* onFinalPayment={activeTab === 'Complete' && !item.isPaid ? markFinalPayment : null}
onFinalPayment(item) == rendered.activeTab = "Complete" /\ ~item.isPaid

PressResend(sync) ==
    /\ Visible /\ rendered.activeTab = "Sent"
    /\ \E i \in DOMAIN Cards : resendQuote(Cards[i].id, sync)
    /\ UNCHANGED <<call, aux>>

PressAccept(sync) ==
    /\ Visible /\ rendered.activeTab = "Sent"
    /\ \E i \in DOMAIN Cards : acceptQuote(Cards[i].id, sync)
    /\ UNCHANGED <<call, aux>>

PressDepositPaid(sync) ==
    /\ Visible /\ rendered.activeTab = "Accepted"
    /\ \E i \in DOMAIN Cards : markDepositPaid(Cards[i].id, sync)
    /\ UNCHANGED <<call, aux>>

PressWorkComplete(sync) ==
    /\ Visible /\ rendered.activeTab = "Scheduled Work"
    /\ \E i \in DOMAIN Cards : markWorkComplete(Cards[i].id, sync)
    /\ UNCHANGED <<call, aux>>

PressFinalPayment(sync) ==
    /\ Visible
    /\ \E i \in DOMAIN Cards :
          /\ onFinalPayment(Cards[i])
          /\ markFinalPayment(Cards[i].id, sync)
    /\ UNCHANGED <<call, aux>>

PressDelete(sync) ==
    /\ Visible /\ rendered.activeTab = "Draft"
    /\ \E i \in DOMAIN Cards : deleteQuote(Cards[i].id, sync)
    /\ UNCHANGED <<call, aux>>

\* TabSelector: setActiveTab(tab)
SelectTab ==
    /\ Visible
    /\ \E t \in StageSet :
          /\ t # activeTab
          /\ activeTab' = t
          /\ rendered' = [quotes |-> quotes, activeTab |-> t]
    /\ UNCHANGED <<quotes, isInitialized, storage, ioq, formVars, today>>
    /\ alert' = "none"
    /\ UNCHANGED <<call, aux>>

----------------------------------------------------------------------------
\* QuoteFormScreen

\* addNewQuote: navigation.navigate('QuoteForm') from the Draft tab's button
addNewQuote ==
    /\ Visible /\ rendered.activeTab = "Draft"
    /\ form' = [open |-> TRUE, initialQuote |-> NoQuote, contactInfo |-> "",
                formModified |-> FALSE]
    /\ UNCHANGED <<quotes, activeTab, rendered, isInitialized, storage, ioq,
                   params, inflight, nextId, today>>
    /\ alert' = "none"
    /\ UNCHANGED <<call, aux>>

\* editQuote: navigation.navigate('QuoteForm', { quote: quoteToEdit }); the form
\* state is initialised from the quote, and the 'modified' effect runs on mount
\* (other marks a non-empty field other than the contact).
editQuote ==
    /\ Visible /\ rendered.activeTab = "Draft"
    /\ \E i \in DOMAIN Cards, other \in BOOLEAN :
          LET quoteToEdit ==
                  rendered.quotes["Draft"][FindIndex(rendered.quotes["Draft"], Cards[i].id)]
          IN  form' = [open |-> TRUE, initialQuote |-> quoteToEdit,
                       contactInfo |-> quoteToEdit.contact,
                       formModified |-> (quoteToEdit.contact # "" \/ other)]
    /\ UNCHANGED <<quotes, activeTab, rendered, isInitialized, storage, ioq,
                   params, inflight, nextId, today>>
    /\ alert' = "none"
    /\ UNCHANGED <<call, aux>>

\* onChangeText={setContactInfo} (and the other fields, which only count for
\* formModified)
FormEdit ==
    /\ form.open
    /\ \E c \in ContactValues, other \in BOOLEAN :
          /\ (c # form.contactInfo \/ (other /\ ~form.formModified))
          /\ form' = [form EXCEPT !.contactInfo = c,
                                  !.formModified = (@ \/ c # "" \/ other)]
    /\ UNCHANGED <<quotes, activeTab, rendered, isInitialized, storage, ioq,
                   params, inflight, nextId, today>>
    /\ alert' = "none"
    /\ UNCHANGED <<call, aux>>

\* handleBackPress without saving: navigation.goBack()
GoBack ==
    /\ form.open
    /\ form' = ClosedForm
    /\ UNCHANGED <<quotes, activeTab, rendered, isInitialized, storage, ioq,
                   params, inflight, nextId, today>>
    /\ alert' = "none"
    /\ UNCHANGED <<call, aux>>

isEditing == form.initialQuote # NoQuote

\* The quote object that saveAsDraft builds from the form state
draftQuote(id) == [NoQuote EXCEPT !.id = id, !.contact = form.contactInfo]

\* handleBackPress -> "Save Draft" -> saveAsDraft: navigate to Main, merge: true
saveAsDraft ==
    /\ form.open /\ form.formModified
    /\ ~EffectPending
    /\ IF isEditing
       THEN /\ params' = [params EXCEPT !.action = "update_draft",
                                        !.quote = draftQuote(form.initialQuote.id)]
            /\ UNCHANGED nextId
       ELSE /\ nextId < MaxQuotes
            /\ params' = [params EXCEPT !.action = "add_draft",
                                        !.quote = draftQuote(<<"d", nextId + 1>>)]
            /\ nextId' = nextId + 1
    /\ form' = ClosedForm
    /\ UNCHANGED <<quotes, activeTab, rendered, isInitialized, storage, ioq,
                   inflight, today>>
    /\ alert' = "none"
    /\ UNCHANGED <<call, aux>>

\* The quote object that handleSendQuote builds from the form state
sentQuote(id, day) ==
    [NoQuote EXCEPT !.id = id, !.contact = form.contactInfo,
                    !.date = day, !.sentDates = <<day>>]

\* handleSendQuote up to `await generateQuotePDF(sentQuote)`
handleSendQuote ==
    /\ form.open
    /\ IF Trim(form.contactInfo) = ""
       THEN /\ alert' = "Missing contact"
            /\ UNCHANGED <<inflight, nextId>>
       ELSE /\ Len(inflight) < MaxInflight
            /\ IF isEditing
               THEN /\ inflight' = Append(inflight,
                          [quote |-> sentQuote(form.initialQuote.id, today),
                           fromDraftId |-> form.initialQuote.id])
                    /\ UNCHANGED nextId
               ELSE /\ nextId < MaxQuotes
                    /\ inflight' = Append(inflight,
                          [quote |-> sentQuote(<<"s", nextId + 1>>, today),
                           fromDraftId |-> NoId])
                    /\ nextId' = nextId + 1
            /\ alert' = "none"
    /\ UNCHANGED <<quotes, activeTab, rendered, isInitialized, storage, ioq,
                   params, form, today>>
    /\ UNCHANGED <<call, aux>>

\* handleSendQuote after the await: generateQuotePDF resolved (ok) or threw;
\* both branches navigate to Main with action 'send_quote', merge: true
SendComplete ==
    /\ ~EffectPending
    /\ \E i \in DOMAIN inflight, ok \in BOOLEAN :
          /\ params' = [action |-> "send_quote", quote |-> inflight[i].quote,
                        fromDraftId |-> inflight[i].fromDraftId]
          /\ inflight' = RemoveAt(inflight, i)
          /\ alert' = IF ok THEN "Quote Created" ELSE "Quote Sent"
    /\ form' = ClosedForm
    /\ UNCHANGED <<quotes, activeTab, rendered, isInitialized, storage, ioq,
                   nextId, today>>
    /\ UNCHANGED <<call, aux>>

----------------------------------------------------------------------------
\* DashboardScreen useFocusEffect: handle the action in route.params, then
\* navigation.setParams clears it.

\* the focus callback without the setParams of its add_draft branch
FocusEffectKeepsParams ==
    /\ EffectPending
    /\ LET snap == rendered.quotes IN
       \/ /\ params.action = "add_draft"
          /\ SetQuotes(addDraftState(snap, quotes, params.quote), "Draft", TRUE)
          /\ UNCHANGED params
       \/ /\ params.action = "update_draft"
          /\ SetQuotes(updateDraftState(snap, quotes, params.quote), "Draft", TRUE)
          /\ params' = [params EXCEPT !.action = "null", !.quote = NoQuote]
       \/ /\ params.action = "send_quote"
          /\ SetQuotes(sendQuoteState(snap, quotes, params.quote, params.fromDraftId),
                       "Sent", TRUE)
          /\ params' = NoParams
    /\ UNCHANGED <<isInitialized, storage, form, inflight, nextId, today, alert>>
    /\ UNCHANGED <<call, aux>>

\* the focus callback
FocusEffect ==
    /\ EffectPending
    /\ LET snap == rendered.quotes IN
       \/ /\ params.action = "add_draft"
          /\ SetQuotes(addDraftState(snap, quotes, params.quote), "Draft", TRUE)
          /\ params' = [params EXCEPT !.action = "null", !.quote = NoQuote]
       \/ /\ params.action = "update_draft"
          /\ SetQuotes(updateDraftState(snap, quotes, params.quote), "Draft", TRUE)
          /\ params' = [params EXCEPT !.action = "null", !.quote = NoQuote]
       \/ /\ params.action = "send_quote"
          /\ SetQuotes(sendQuoteState(snap, quotes, params.quote, params.fromDraftId),
                       "Sent", TRUE)
          /\ params' = NoParams
    /\ UNCHANGED <<isInitialized, storage, form, inflight, nextId, today, alert>>
    /\ UNCHANGED <<call, aux>>

----------------------------------------------------------------------------
\* AsyncStorage: operations complete in the order they were issued.

\* loadQuotes after `await AsyncStorage.getItem`
LoadComplete ==
    /\ ioq # <<>> /\ Head(ioq).op = "get"
    /\ IF storage.present
       THEN /\ quotes' = storage.val
            /\ isInitialized' = TRUE
            /\ ioq' = Append(Tail(ioq), [op |-> "set", val |-> storage.val])
       ELSE /\ quotes' = initialMockData
            /\ ioq' = Append(Tail(ioq), [op |-> "initset", val |-> initialMockData])
            /\ UNCHANGED isInitialized
    /\ rendered' = [quotes |-> quotes', activeTab |-> activeTab]
    /\ UNCHANGED <<activeTab, storage, formVars, today, alert>>
    /\ UNCHANGED <<call, aux>>

\* loadQuotes after `await AsyncStorage.setItem(emptyData)`: setIsInitialized(true),
\* whose render runs the save effect
InitComplete ==
    /\ ioq # <<>> /\ Head(ioq).op = "initset"
    /\ storage' = [present |-> TRUE, val |-> Head(ioq).val]
    /\ isInitialized' = TRUE
    /\ ioq' = Append(Tail(ioq), [op |-> "set", val |-> quotes])
    /\ UNCHANGED <<quotes, activeTab, rendered, formVars, today, alert>>
    /\ UNCHANGED <<call, aux>>

\* a setItem of the save effect completes
WriteComplete ==
    /\ ioq # <<>> /\ Head(ioq).op = "set"
    /\ storage' = [present |-> TRUE, val |-> Head(ioq).val]
    /\ ioq' = Tail(ioq)
    /\ UNCHANGED <<quotes, activeTab, rendered, isInitialized, formVars, today, alert>>
    /\ UNCHANGED <<call, aux>>

\* midnight passes
Tick ==
    /\ today < MaxDay
    /\ today' = today + 1
    /\ UNCHANGED <<quotes, activeTab, rendered, isInitialized, storage, ioq,
                   formVars, alert>>
    /\ UNCHANGED <<call, aux>>

----------------------------------------------------------------------------
\* The application as the user drives it.  Every handler runs on the latest
\* render: React commits the re-render of a state update before the next event.

Others ==
    \/ PressResend(TRUE)
    \/ PressAccept(TRUE)
    \/ PressDepositPaid(TRUE)
    \/ PressWorkComplete(TRUE)
    \/ PressFinalPayment(TRUE)
    \/ PressDelete(TRUE)
    \/ SelectTab
    \/ addNewQuote
    \/ editQuote
    \/ FormEdit
    \/ GoBack
    \/ saveAsDraft
    \/ SendComplete
    \/ FocusEffect
    \/ LoadComplete
    \/ InitComplete
    \/ WriteComplete
    \/ Tick

Next == handleSendQuote \/ Others

Spec == Init /\ [][Next]_vars

----------------------------------------------------------------------------
\* The same application when the Send button is not pressed again while a
\* send is still generating its PDF.

SendOnce == inflight = <<>> /\ handleSendQuote

NextOneSend == SendOnce \/ Others

SpecOneSend == Init /\ [][NextOneSend]_vars

----------------------------------------------------------------------------
\* Handlers that share a captured snapshot: a card's handler is called while
\* the update of an earlier handler is still queued, so it closes over the same
\* `quotes`; Render commits the queued updates and runs the save effect.  Only
\* presses fall between an update and its render; everything else finds the
\* render committed.  Sends do not overlap here.

Committed == rendered = [quotes |-> quotes, activeTab |-> activeTab]

Render ==
    /\ rendered # [quotes |-> quotes, activeTab |-> activeTab]
    /\ (isInitialized /\ rendered.quotes # quotes) => Len(ioq) < MaxPending
    /\ rendered' = [quotes |-> quotes, activeTab |-> activeTab]
    /\ ioq' = IF rendered.quotes # quotes THEN saveQuotes(quotes) ELSE ioq
    /\ UNCHANGED <<quotes, activeTab, isInitialized, storage, formVars, today,
                   alert, call, aux>>

StaleResend == PressResend(FALSE)
StaleAccept == PressAccept(FALSE)
StaleDepositPaid == PressDepositPaid(FALSE)
StaleWorkComplete == PressWorkComplete(FALSE)
StaleFinalPayment == PressFinalPayment(FALSE)
StaleDelete == PressDelete(FALSE)

NextStale ==
    \/ Committed /\ NextOneSend
    \/ StaleResend
    \/ StaleAccept
    \/ StaleDepositPaid
    \/ StaleWorkComplete
    \/ StaleFinalPayment
    \/ StaleDelete
    \/ Render

SpecStale == Init /\ [][NextStale]_vars

----------------------------------------------------------------------------
\* The handlers as functions of the component, called with any id (no card
\* in between), and resetQuotes, which no control of the screen is wired to.

Called(bucket, quoteId) ==
    [outcome |-> IF FindIndex(rendered.quotes[bucket], quoteId) # 0
                 THEN "found" ELSE "notfound",
     n |-> 1 - call.n]

CallResend ==
    /\ Visible
    /\ \E id \in AnyIds : resendQuote(id, TRUE) /\ call' = Called("Sent", id)
    /\ UNCHANGED aux

CallAccept ==
    /\ Visible
    /\ \E id \in AnyIds : acceptQuote(id, TRUE) /\ call' = Called("Sent", id)
    /\ UNCHANGED aux

CallDepositPaid ==
    /\ Visible
    /\ \E id \in AnyIds : markDepositPaid(id, TRUE) /\ call' = Called("Accepted", id)
    /\ UNCHANGED aux

CallWorkComplete ==
    /\ Visible
    /\ \E id \in AnyIds :
        markWorkComplete(id, TRUE) /\ call' = Called("Scheduled Work", id)
    /\ UNCHANGED aux

CallFinalPayment ==
    /\ Visible
    /\ \E id \in AnyIds : markFinalPayment(id, TRUE) /\ call' = Called("Complete", id)
    /\ UNCHANGED aux

CallDelete ==
    /\ Visible
    /\ \E id \in AnyIds : deleteQuote(id, TRUE)
    /\ UNCHANGED <<call, aux>>

\* resetQuotes up to `await AsyncStorage.setItem(emptyData)`
resetQuotes ==
    /\ Visible
    /\ Len(ioq) < MaxPending
    /\ ioq' = Append(ioq, [op |-> "resetset", val |-> initialMockData])
    /\ UNCHANGED <<quotes, activeTab, rendered, isInitialized, storage,
                   formVars, today, alert, call, aux>>

\* resetQuotes after the await: setQuotes(emptyData), Alert
ResetComplete ==
    /\ ioq # <<>> /\ Head(ioq).op = "resetset"
    /\ storage' = [present |-> TRUE, val |-> Head(ioq).val]
    /\ quotes' = initialMockData
    /\ rendered' = [quotes |-> initialMockData, activeTab |-> activeTab]
    /\ ioq' = IF isInitialized
              THEN Append(Tail(ioq), [op |-> "set", val |-> initialMockData])
              ELSE Tail(ioq)
    /\ alert' = "All quotes have been cleared."
    /\ UNCHANGED <<activeTab, isInitialized, formVars, today, call, aux>>

NextCall ==
    \/ Next
    \/ CallResend
    \/ CallAccept
    \/ CallDepositPaid
    \/ CallWorkComplete
    \/ CallFinalPayment
    \/ CallDelete
    \/ resetQuotes
    \/ ResetComplete

SpecCall == Init /\ [][NextCall]_vars

----------------------------------------------------------------------------
\* MainScreen (App.js) renders one screen under the tab bar: leaving the
\* dashboard unmounts DashboardScreen, coming back mounts a new one, which
\* loads the collection again.  SettingsScreen can reset the stored data.

\* the pending storage operations of a DashboardScreen that unmounts: they
\* still complete, and their continuations set the state of no mounted component
Orphaned(ops) ==
    [i \in DOMAIN ops |->
        IF ops[i].op = "get" THEN [ops[i] EXCEPT !.op = "deadget"]
        ELSE IF ops[i].op = "initset" THEN [ops[i] EXCEPT !.op = "set"]
        ELSE ops[i]]

\* handleTabChange('settings')
LeaveDashboard ==
    /\ Visible
    /\ activeScreen' = "settings"
    /\ quotes' = initialMockData
    /\ activeTab' = "Draft"
    /\ rendered' = [quotes |-> initialMockData, activeTab |-> "Draft"]
    /\ isInitialized' = FALSE
    /\ ioq' = Orphaned(ioq)
    /\ alert' = "none"
    /\ UNCHANGED <<storage, formVars, today, call, logged, calc, side>>

\* handleTabChange('dashboard'): DashboardScreen mounts, loadQuotes issues
\* getItem, then the save effect runs for the first time
ReturnToDashboard ==
    /\ activeScreen = "settings"
    /\ Len(ioq) <= MaxPending
    /\ activeScreen' = "dashboard"
    /\ ioq' = saveEffect(Append(ioq, [op |-> "get", val |-> initialMockData]),
                         quotes)
    /\ alert' = "none"
    /\ UNCHANGED <<quotes, activeTab, rendered, isInitialized, storage,
                   formVars, today, call, logged, calc, side>>

\* loadQuotes of an unmounted DashboardScreen after its getItem
OrphanLoadComplete ==
    /\ ioq # <<>> /\ Head(ioq).op = "deadget"
    /\ ioq' = IF storage.present
              THEN Tail(ioq)
              ELSE Append(Tail(ioq), [op |-> "set", val |-> initialMockData])
    /\ UNCHANGED <<quotes, activeTab, rendered, isInitialized, storage,
                   formVars, today, alert, call, aux>>

\* SettingsScreen resetAllData up to `await AsyncStorage.setItem(emptyData)`
resetAllData ==
    /\ activeScreen = "settings"
    /\ Len(ioq) < MaxPending
    /\ ioq' = Append(ioq, [op |-> "allset", val |-> initialMockData])
    /\ alert' = "none"
    /\ UNCHANGED <<quotes, activeTab, rendered, isInitialized, storage,
                   formVars, today, call, aux>>

\* resetAllData after the await: Alert
ResetAllComplete ==
    /\ ioq # <<>> /\ Head(ioq).op = "allset"
    /\ storage' = [present |-> TRUE, val |-> Head(ioq).val]
    /\ ioq' = Tail(ioq)
    /\ alert' = "All quotes have been deleted."
    /\ UNCHANGED <<quotes, activeTab, rendered, isInitialized, formVars, today,
                   call, aux>>

NextScreens ==
    \/ Next
    \/ LeaveDashboard
    \/ ReturnToDashboard
    \/ OrphanLoadComplete
    \/ resetAllData
    \/ ResetAllComplete

SpecScreens == Init /\ [][NextScreens]_vars

----------------------------------------------------------------------------
\* AsyncStorage operations that reject: the catch blocks

\* console.error(msg, error)
Logged(msg) == [msg |-> msg, n |-> 1 - logged.n]

\* loadQuotes' catch without setIsInitialized(true)
LoadFailStuck ==
    /\ ioq # <<>> /\ Head(ioq).op \in {"get", "initset"}
    /\ quotes' = initialMockData
    /\ rendered' = [quotes |-> initialMockData, activeTab |-> activeTab]
    /\ ioq' = Tail(ioq)
    /\ logged' = Logged("Error loading quotes")
    /\ UNCHANGED <<isInitialized, activeTab, storage, formVars, today, alert, call,
                   activeScreen, calc, side>>

\* loadQuotes: getItem, or the setItem of the empty data, rejects; the catch
\* falls back to empty data and setIsInitialized(true), whose render runs the
\* save effect
LoadFail ==
    /\ ioq # <<>> /\ Head(ioq).op \in {"get", "initset"}
    /\ quotes' = initialMockData
    /\ isInitialized' = TRUE
    /\ rendered' = [quotes |-> initialMockData, activeTab |-> activeTab]
    /\ ioq' = Append(Tail(ioq), [op |-> "set", val |-> initialMockData])
    /\ logged' = Logged("Error loading quotes")
    /\ UNCHANGED <<activeTab, storage, formVars, today, alert, call,
                   activeScreen, calc, side>>

\* the save effect's setItem rejects
WriteFail ==
    /\ ioq # <<>> /\ Head(ioq).op = "set"
    /\ ioq' = Tail(ioq)
    /\ logged' = Logged("Error saving quotes")
    /\ UNCHANGED <<quotes, activeTab, rendered, isInitialized, storage,
                   formVars, today, alert, call, activeScreen, calc, side>>

\* loadQuotes of an unmounted DashboardScreen: getItem rejects
OrphanLoadFail ==
    /\ ioq # <<>> /\ Head(ioq).op = "deadget"
    /\ ioq' = Tail(ioq)
    /\ logged' = Logged("Error loading quotes")
    /\ UNCHANGED <<quotes, activeTab, rendered, isInitialized, storage,
                   formVars, today, alert, call, activeScreen, calc, side>>

\* resetQuotes: setItem rejects; the catch shows an Alert
ResetFail ==
    /\ ioq # <<>> /\ Head(ioq).op = "resetset"
    /\ ioq' = Tail(ioq)
    /\ logged' = Logged("Error resetting quotes")
    /\ alert' = "Failed to clear quotes. Please try again."
    /\ UNCHANGED <<quotes, activeTab, rendered, isInitialized, storage,
                   formVars, today, call, activeScreen, calc, side>>

\* resetAllData: setItem rejects; the catch shows an Alert
ResetAllFail ==
    /\ ioq # <<>> /\ Head(ioq).op = "allset"
    /\ ioq' = Tail(ioq)
    /\ logged' = Logged("Error resetting data")
    /\ alert' = "There was a problem resetting your data. Please try again."
    /\ UNCHANGED <<quotes, activeTab, rendered, isInitialized, storage,
                   formVars, today, call, activeScreen, calc, side>>

NextFail ==
    \/ NextOneSend
    \/ resetQuotes
    \/ ResetComplete
    \/ LeaveDashboard
    \/ ReturnToDashboard
    \/ OrphanLoadComplete
    \/ resetAllData
    \/ ResetAllComplete
    \/ LoadFail
    \/ OrphanLoadFail
    \/ WriteFail
    \/ ResetFail
    \/ ResetAllFail

SpecFail == Init /\ [][NextFail]_vars

----------------------------------------------------------------------------
\* Pricing (QuoteFormScreen totals, pdfGenerator.js, ReportsScreen).
\* A price is a whole number of thousandths of a rand, every toFixed(2) result a
\* whole number of cents.  JavaScript doubles are modelled by exact rationals
\* (a numerator over the denominator named at each operator), toFixed(2) by
\* rounding half up.

\* largest number of line items of a quote
MaxItems == 2

\* const SERVICE_CHARGE_PERCENTAGE = 0.5, in tenths of a percent
SERVICE_CHARGE_PERCENTAGE == 5

QuantityValues == {1, 2, 3}
PriceValues == {4, 360, 1256, 50000}
VatValues == {0, 15}
DepositValues == {0, 30, 50}

LineItemSet == [quantity : QuantityValues, price : PriceValues]

LineItemSeqs == UNION {[1..n -> LineItemSet] : n \in 1..MaxItems}

\* truncation in place of rounding
toFixed2Floor(num, den) == num \div den

\* Number((num / den).toFixed(2)) where num / den is an amount in cents
toFixed2(num, den) == (num + den \div 2) \div den

\* An unrounded amount: c whole cents and m millionths of a cent, m < 1000000
Exact(c, m) == [c |-> c + m \div 1000000, m |-> m % 1000000]

\* an amount t given in ten-thousandths of a cent
ExactOf(t) == Exact(t \div 10000, (t % 10000) * 100)

\* t * (percentage / 100) for t in ten-thousandths of a cent
ExactTimes(t, percentage) ==
    Exact(((t \div 10000) * percentage) \div 100,
          (((t \div 10000) * percentage) % 100) * 10000
              + (t % 10000) * percentage)

\* a - b for a >= b
ExactMinus(a, b) ==
    IF a.m >= b.m
    THEN [c |-> a.c - b.c, m |-> a.m - b.m]
    ELSE [c |-> a.c - b.c - 1, m |-> a.m + 1000000 - b.m]

ExactPlus(a, b) == Exact(a.c + b.c, a.m + b.m)

\* x.toFixed(2) of an unrounded amount, in cents
ExactFixed2(x) == x.c + (IF x.m >= 500000 THEN 1 ELSE 0)

RECURSIVE SumOver(_, _)
\* items.reduce((sum, item) => sum + f(item), 0), f given as the sequence of
\* the summands
SumOver(summands, n) ==
    IF n = 0 THEN 0 ELSE SumOver(summands, n - 1) + summands[n]

\* the form: every quantity in cents (part_000 236-246)
calculateItemTotal(item) == toFixed2(item.quantity * item.price, 10)

subtotal(lineItems) ==
    toFixed2(SumOver([i \in DOMAIN lineItems |->
                          calculateItemTotal(lineItems[i])], Len(lineItems)), 1)

vatAmount(lineItems, vatPercentage) ==
    toFixed2(subtotal(lineItems) * vatPercentage, 100)

serviceChargeAmount(lineItems) ==
    toFixed2(subtotal(lineItems) * SERVICE_CHARGE_PERCENTAGE, 1000)

total(lineItems, vatPercentage) ==
    toFixed2(subtotal(lineItems) + vatAmount(lineItems, vatPercentage)
                 + serviceChargeAmount(lineItems), 1)

depositAmount(lineItems, vatPercentage, depositPercentage) ==
    toFixed2(total(lineItems, vatPercentage) * depositPercentage, 100)

\* the quote object the form stores and hands to the generators
sentQuoteOf(in) ==
    [amount |-> total(in.lineItems, in.vatPercentage),
     lineItems |-> in.lineItems,
     vatPercentage |-> in.vatPercentage,
     serviceChargePercentage |-> SERVICE_CHARGE_PERCENTAGE,
     depositPercentage |-> in.depositPercentage]

\* pdfGenerator.js: the unrounded sums, in thousandths of a rand (pdfSubtotal)
\* and in ten-thousandths of a cent (pdfTotal)
pdfSubtotal(quote) ==
    SumOver([i \in DOMAIN quote.lineItems |->
                 quote.lineItems[i].quantity * quote.lineItems[i].price],
            Len(quote.lineItems))

pdfTotal(quote) ==
    pdfSubtotal(quote) * (1000 + 10 * quote.vatPercentage
                              + quote.serviceChargePercentage)

\* createQuoteHTML: the amounts printed, each through toFixed(2)
createQuoteHTML(quote) ==
    [subtotal |-> toFixed2(pdfSubtotal(quote), 10),
     vatAmount |-> toFixed2(pdfSubtotal(quote) * quote.vatPercentage, 1000),
     serviceChargeAmount |->
         toFixed2(pdfSubtotal(quote) * quote.serviceChargePercentage, 10000),
     total |-> toFixed2(pdfTotal(quote), 10000),
     depositAmount |->
         ExactFixed2(ExactTimes(pdfTotal(quote), quote.depositPercentage))]

\* createInvoiceHTML with the remainder rounded from its own percentage
invoiceAmountsSplit(quote) ==
    [total |-> ExactOf(pdfTotal(quote)),
     depositAmount |-> ExactTimes(pdfTotal(quote), quote.depositPercentage),
     finalAmount |->
         ExactOf(ExactFixed2(ExactTimes(pdfTotal(quote),
                                        100 - quote.depositPercentage))
                     * 10000)]

\* createInvoiceHTML: total, depositAmount and finalAmount as computed
invoiceAmounts(quote) ==
    [total |-> ExactOf(pdfTotal(quote)),
     depositAmount |-> ExactTimes(pdfTotal(quote), quote.depositPercentage),
     finalAmount |->
         ExactMinus(ExactOf(pdfTotal(quote)),
                    ExactTimes(pdfTotal(quote), quote.depositPercentage))]

\* createInvoiceHTML: the amounts printed, each through toFixed(2)
createInvoiceHTML(quote) ==
    [subtotal |-> toFixed2(pdfSubtotal(quote), 10),
     vatAmount |-> toFixed2(pdfSubtotal(quote) * quote.vatPercentage, 1000),
     serviceChargeAmount |->
         toFixed2(pdfSubtotal(quote) * quote.serviceChargePercentage, 10000),
     total |-> ExactFixed2(invoiceAmounts(quote).total),
     depositAmount |-> ExactFixed2(invoiceAmounts(quote).depositAmount),
     finalAmount |-> ExactFixed2(invoiceAmounts(quote).finalAmount),
     computed |-> invoiceAmounts(quote)]

\* ReportsScreen, per quote.  Amounts in 1/20000 of a cent: quote.amount and
\* quote.depositAmount are cents, a percentage of them hundredths of a cent,
\* the 0.5 % fee of that a two-hundredth more.  An absent depositAmount is 0.

\* parseFloat(quote.depositPercentage) || 50
depositPercentageOr50(quote) ==
    IF quote.depositPercentage = 0 THEN 50 ELSE quote.depositPercentage

\* quote.depositAmount ? parseFloat(quote.depositAmount)
\*                     : (totalAmount * depositPercentage / 100)
reportDepositAmount(quote) ==
    IF quote.depositAmount # 0
    THEN quote.depositAmount * 20000
    ELSE quote.amount * depositPercentageOr50(quote) * 200

\* const finalPaymentAmount = totalAmount - depositAmount
reportFinalPaymentAmount(quote) ==
    quote.amount * 20000 - reportDepositAmount(quote)

\* the quote as ReportsScreen reads it back from storage
storedQuoteOf(in) ==
    [amount |-> sentQuoteOf(in).amount,
     depositPercentage |-> sentQuoteOf(in).depositPercentage,
     depositAmount |-> 0]

PricingInputs ==
    [lineItems : LineItemSeqs, vatPercentage : VatValues,
     depositPercentage : DepositValues]

Applied(fn, out) == calc' = [fn |-> fn, in |-> calc.in, out |-> out]

\* QuoteFormScreen renders its totals
QuoteFormTotals ==
    /\ calc.fn = "input"
    /\ Applied("form",
               [itemTotals |-> [i \in DOMAIN calc.in.lineItems |->
                                    calculateItemTotal(calc.in.lineItems[i])],
                subtotal |-> subtotal(calc.in.lineItems),
                vatAmount |-> vatAmount(calc.in.lineItems,
                                        calc.in.vatPercentage),
                serviceChargeAmount |-> serviceChargeAmount(calc.in.lineItems),
                total |-> total(calc.in.lineItems, calc.in.vatPercentage),
                depositAmount |->
                    depositAmount(calc.in.lineItems, calc.in.vatPercentage,
                                  calc.in.depositPercentage)])
    /\ UNCHANGED appVars

\* generateQuotePDF(sentQuote)
generateQuotePDF ==
    /\ calc.fn = "input"
    /\ Applied("quotePDF", createQuoteHTML(sentQuoteOf(calc.in)))
    /\ UNCHANGED appVars

\* generateInvoicePDF(quote)
generateInvoicePDF ==
    /\ calc.fn = "input"
    /\ Applied("invoicePDF", createInvoiceHTML(sentQuoteOf(calc.in)))
    /\ UNCHANGED appVars

\* calculateMonthlyMetrics maps the quote into finalPayments
FinalPaymentsMap ==
    /\ calc.fn = "input"
    /\ Applied("finalPayments",
               [totalAmount |-> storedQuoteOf(calc.in).amount * 20000,
                depositAmount |-> reportDepositAmount(storedQuoteOf(calc.in)),
                finalPaymentAmount |->
                    reportFinalPaymentAmount(storedQuoteOf(calc.in))])
    /\ UNCHANGED appVars

NextPricing ==
    \/ QuoteFormTotals
    \/ generateQuotePDF
    \/ generateInvoicePDF
    \/ FinalPaymentsMap

PricingInit ==
    /\ AppInit
    /\ calc \in [fn : {"input"}, in : PricingInputs, out : {<<>>}]

SpecPricing == PricingInit /\ [][NextPricing]_vars

----------------------------------------------------------------------------
\* ReportsScreen.  A date is the year and the month (0..11) that
\* new Date(s).getFullYear() and getMonth() give; NoDate is an absent field.
\* Money is in 1/20000 of a cent, as in reportDepositAmount.

\* largest number of quotes in one bucket of the reported collection
MaxBucket == 1

\* const SERVICE_FEE_PERCENTAGE = 0.5, in tenths of a percent
SERVICE_FEE_PERCENTAGE == 5

NoDate == [year |-> 0, month |-> 0]

Dates == {[year |-> 2024, month |-> 0], [year |-> 2024, month |-> 11],
          [year |-> 2025, month |-> 0]}

\* the month and year the screen shows
Selections == {[month |-> 0, year |-> 2025], [month |-> 1, year |-> 2025]}

\* the month compared without the year
InMonthAnyYear(date, month, year) == date # NoDate /\ date.month = month

\* d.getMonth() === month && d.getFullYear() === year, false for Invalid Date
InMonth(date, month, year) ==
    date # NoDate /\ date.month = month /\ date.year = year

ReportQuote(date, depositDate, finalPaymentDate, amount, pct, dep) ==
    [date |-> date, depositDate |-> depositDate,
     finalPaymentDate |-> finalPaymentDate,
     completedDate |-> [year |-> 2025, month |-> 0],
     amount |-> amount, depositPercentage |-> pct, depositAmount |-> dep]

SentQuotes ==
    {ReportQuote(d, NoDate, NoDate, 20000, 50, 0) : d \in Dates}

ScheduledQuotes ==
    {ReportQuote(x[1], x[2], NoDate, 20000, x[3], x[4]) :
        x \in Dates \X Dates \X DepositValues \X {0, 2500}}

CompleteQuotes ==
    {ReportQuote(x[1], x[2], x[3], 10000, x[4], 0) :
        x \in Dates \X Dates \X (Dates \cup {NoDate}) \X {0, 50}}

UpTo(S) == UNION {[1..n -> S] : n \in 0..MaxBucket}

Collections ==
    {[b \in StageSet |->
         CASE b = "Draft" -> <<>>
           [] b = "Sent" -> x[1]
           [] b = "Accepted" -> x[2]
           [] b = "Scheduled Work" -> x[3]
           [] b = "Complete" -> x[4]] :
        x \in UpTo(SentQuotes) \X UpTo(SentQuotes) \X UpTo(ScheduledQuotes)
                  \X UpTo(CompleteQuotes)}

\* a / b for b > 0, kept as a fraction
Ratio(a, b) == [num |-> a, den |-> b]

\* accepted / sent with only the quotes still in Sent as the denominator
quoteConversionOverSent(allQuotes, month, year) ==
    LET sentTest(quote) == InMonth(quote.date, month, year)
        sentTestGuarded(quote) ==
            IF quote.date # NoDate
            THEN InMonth(quote.date, month, year) ELSE FALSE
        allSentInMonth ==
            SelectSeq(allQuotes["Sent"], sentTest)
        totalAcceptedQuotes ==
            Len(SelectSeq(allQuotes["Accepted"], sentTestGuarded))
                + Len(SelectSeq(allQuotes["Scheduled Work"], sentTestGuarded))
                + Len(SelectSeq(allQuotes["Complete"], sentTestGuarded))
    IN  IF Len(allSentInMonth) > 0
        THEN Ratio(totalAcceptedQuotes * 100, Len(allSentInMonth))
        ELSE Ratio(0, 1)

\* calculateMonthlyMetrics: the conversion rate, in percent
quoteConversion(allQuotes, month, year) ==
    LET sentTest(quote) == InMonth(quote.date, month, year)
        sentTestGuarded(quote) ==
            IF quote.date # NoDate
            THEN InMonth(quote.date, month, year) ELSE FALSE
        allSentInMonth ==
            SelectSeq(allQuotes["Sent"], sentTest)
                \o SelectSeq(allQuotes["Accepted"], sentTest)
                \o SelectSeq(allQuotes["Scheduled Work"], sentTest)
                \o SelectSeq(allQuotes["Complete"], sentTest)
        totalAcceptedQuotes ==
            Len(SelectSeq(allQuotes["Accepted"], sentTestGuarded))
                + Len(SelectSeq(allQuotes["Scheduled Work"], sentTestGuarded))
                + Len(SelectSeq(allQuotes["Complete"], sentTestGuarded))
    IN  IF Len(allSentInMonth) > 0
        THEN Ratio(totalAcceptedQuotes * 100, Len(allSentInMonth))
        ELSE Ratio(0, 1)

\* calculatePreviousMonthMetrics: the conversion rate, in percent
prevQuoteConversion(allQuotes, month, year) ==
    LET sentTest(quote) == InMonth(quote.date, month, year)
        sentTestGuarded(quote) ==
            IF quote.date # NoDate
            THEN InMonth(quote.date, month, year) ELSE FALSE
        prevAllSentInMonth ==
            SelectSeq(allQuotes["Sent"], sentTest)
                \o SelectSeq(allQuotes["Accepted"], sentTest)
                \o SelectSeq(allQuotes["Scheduled Work"], sentTest)
                \o SelectSeq(allQuotes["Complete"], sentTest)
        prevTotalAcceptedQuotes ==
            Len(SelectSeq(allQuotes["Accepted"], sentTestGuarded))
                + Len(SelectSeq(allQuotes["Scheduled Work"], sentTestGuarded))
                + Len(SelectSeq(allQuotes["Complete"], sentTestGuarded))
    IN  IF Len(prevAllSentInMonth) > 0
        THEN Ratio(prevTotalAcceptedQuotes * 100, Len(prevAllSentInMonth))
        ELSE Ratio(0, 1)

calculateMonthlyMetrics(allQuotes, month, year) ==
    LET completedTest(quote) ==
            InMonth(IF quote.finalPaymentDate # NoDate
                    THEN quote.finalPaymentDate ELSE quote.completedDate,
                    month, year)
        completedJobs == SelectSeq(allQuotes["Complete"], completedTest)
        depositTest(quote) ==
            IF quote.depositDate # NoDate
            THEN InMonth(quote.depositDate, month, year) ELSE FALSE
        depositMap(quote) ==
            [quote EXCEPT !.depositAmount = reportDepositAmount(quote)]
        depositPayments ==
            [i \in DOMAIN SelectSeq(allQuotes["Scheduled Work"], depositTest) |->
                 depositMap(SelectSeq(allQuotes["Scheduled Work"], depositTest)[i])]
        completedDeposits ==
            [i \in DOMAIN SelectSeq(allQuotes["Complete"], depositTest) |->
                 depositMap(SelectSeq(allQuotes["Complete"], depositTest)[i])]
        allDepositPayments == depositPayments \o completedDeposits
        finalTest(quote) ==
            IF quote.finalPaymentDate # NoDate
            THEN InMonth(quote.finalPaymentDate, month, year) ELSE FALSE
        finalMap(quote) ==
            [date |-> quote.date, depositDate |-> quote.depositDate,
             finalPaymentDate |-> quote.finalPaymentDate,
             completedDate |-> quote.completedDate,
             amount |-> quote.amount,
             depositPercentage |-> quote.depositPercentage,
             depositAmount |-> reportDepositAmount(quote),
             finalPaymentAmount |-> reportFinalPaymentAmount(quote)]
        finalPayments ==
            [i \in DOMAIN SelectSeq(allQuotes["Complete"], finalTest) |->
                 finalMap(SelectSeq(allQuotes["Complete"], finalTest)[i])]
        combinedDeposit(payment) ==
            [paymentType |-> "Deposit",
             paymentDate |-> payment.depositDate,
             paymentAmount |->
                 IF payment.depositAmount # 0
                 THEN payment.depositAmount
                 ELSE payment.amount * depositPercentageOr50(payment) * 200,
             payment |-> payment]
        combinedFinal(payment) ==
            [paymentType |-> "Final Payment",
             paymentDate |-> payment.finalPaymentDate,
             paymentAmount |-> payment.finalPaymentAmount,
             payment |-> payment]
        combinedPayments ==
            [i \in DOMAIN allDepositPayments |->
                 combinedDeposit(allDepositPayments[i])]
                \o [i \in DOMAIN finalPayments |->
                 combinedFinal(finalPayments[i])]
        paymentAmountOf(payment) == payment.paymentAmount
        feeOf(payment) ==
            (payment.paymentAmount * SERVICE_FEE_PERCENTAGE) \div 1000
        revenue == SumOver([i \in DOMAIN combinedPayments |->
                 paymentAmountOf(combinedPayments[i])], Len(combinedPayments))
        serviceFees == SumOver([i \in DOMAIN combinedPayments |->
                 feeOf(combinedPayments[i])], Len(combinedPayments))
        depositAmountOf(job) == job.depositAmount
        finalPaymentAmountOf(job) == job.finalPaymentAmount
    IN  [revenue |-> revenue,
         netRevenue |-> revenue - serviceFees,
         serviceFees |-> serviceFees,
         depositRevenue |-> SumOver([i \in DOMAIN allDepositPayments |->
                 depositAmountOf(allDepositPayments[i])], Len(allDepositPayments)),
         finalPaymentRevenue |-> SumOver([i \in DOMAIN finalPayments |->
                 finalPaymentAmountOf(finalPayments[i])], Len(finalPayments)),
         jobsCompleted |-> Len(completedJobs),
         quoteConversion |-> quoteConversion(allQuotes, month, year),
         averageJobSize |->
             IF Len(completedJobs) > 0
             THEN Ratio(revenue, Len(completedJobs))
             ELSE Ratio(0, 1),
         depositPayments |-> allDepositPayments,
         finalPayments |-> finalPayments,
         combinedPayments |-> combinedPayments]

calculatePreviousMonthMetrics(allQuotes, month, year) ==
    LET completedTest(quote) ==
            InMonth(IF quote.finalPaymentDate # NoDate
                    THEN quote.finalPaymentDate ELSE quote.completedDate,
                    month, year)
        completedJobs == SelectSeq(allQuotes["Complete"], completedTest)
        depositTest(quote) ==
            IF quote.depositDate # NoDate
            THEN InMonth(quote.depositDate, month, year) ELSE FALSE
        depositMap(quote) ==
            [quote EXCEPT !.depositAmount = reportDepositAmount(quote)]
        depositPayments ==
            [i \in DOMAIN SelectSeq(allQuotes["Scheduled Work"], depositTest) |->
                 depositMap(SelectSeq(allQuotes["Scheduled Work"], depositTest)[i])]
        prevCompletedDeposits ==
            [i \in DOMAIN SelectSeq(allQuotes["Complete"], depositTest) |->
                 depositMap(SelectSeq(allQuotes["Complete"], depositTest)[i])]
        prevAllDepositPayments == depositPayments \o prevCompletedDeposits
        finalTest(quote) ==
            IF quote.finalPaymentDate # NoDate
            THEN InMonth(quote.finalPaymentDate, month, year) ELSE FALSE
        finalMap(quote) ==
            [date |-> quote.date, depositDate |-> quote.depositDate,
             finalPaymentDate |-> quote.finalPaymentDate,
             completedDate |-> quote.completedDate,
             amount |-> quote.amount,
             depositPercentage |-> quote.depositPercentage,
             depositAmount |-> reportDepositAmount(quote),
             finalPaymentAmount |-> reportFinalPaymentAmount(quote)]
        prevFinalPayments ==
            [i \in DOMAIN SelectSeq(allQuotes["Complete"], finalTest) |->
                 finalMap(SelectSeq(allQuotes["Complete"], finalTest)[i])]
        combinedDeposit(payment) ==
            [paymentType |-> "Deposit",
             paymentDate |-> payment.depositDate,
             paymentAmount |->
                 IF payment.depositAmount # 0
                 THEN payment.depositAmount
                 ELSE payment.amount * depositPercentageOr50(payment) * 200,
             payment |-> payment]
        combinedFinal(payment) ==
            [paymentType |-> "Final Payment",
             paymentDate |-> payment.finalPaymentDate,
             paymentAmount |-> payment.finalPaymentAmount,
             payment |-> payment]
        prevCombinedPayments ==
            [i \in DOMAIN prevAllDepositPayments |->
                 combinedDeposit(prevAllDepositPayments[i])]
                \o [i \in DOMAIN prevFinalPayments |->
                 combinedFinal(prevFinalPayments[i])]
        paymentAmountOf(payment) == payment.paymentAmount
        feeOf(payment) ==
            (payment.paymentAmount * SERVICE_FEE_PERCENTAGE) \div 1000
        prevRevenue == SumOver([i \in DOMAIN prevCombinedPayments |->
                 paymentAmountOf(prevCombinedPayments[i])], Len(prevCombinedPayments))
        prevServiceFees == SumOver([i \in DOMAIN prevCombinedPayments |->
                 feeOf(prevCombinedPayments[i])], Len(prevCombinedPayments))
        depositAmountOf(job) == job.depositAmount
        finalPaymentAmountOf(job) == job.finalPaymentAmount
    IN  [revenue |-> prevRevenue,
         netRevenue |-> prevRevenue - prevServiceFees,
         serviceFees |-> prevServiceFees,
         depositRevenue |-> SumOver([i \in DOMAIN prevAllDepositPayments |->
                 depositAmountOf(prevAllDepositPayments[i])], Len(prevAllDepositPayments)),
         finalPaymentRevenue |->
             SumOver([i \in DOMAIN prevFinalPayments |->
                 finalPaymentAmountOf(prevFinalPayments[i])], Len(prevFinalPayments)),
         jobsCompleted |-> Len(completedJobs),
         quoteConversion |-> prevQuoteConversion(allQuotes, month, year),
         averageJobSize |->
             IF Len(completedJobs) > 0
             THEN Ratio(prevRevenue, Len(completedJobs))
             ELSE Ratio(0, 1)]

\* the effect on [selectedMonth, selectedYear, allQuotes], never wrapping
UpdateMetricsSameYear ==
    /\ calc.fn = "input"
    /\ Applied("metrics",
               [monthlyData |->
                    calculateMonthlyMetrics(calc.in.allQuotes, calc.in.month,
                                            calc.in.year),
                previousMonthData |->
                    calculatePreviousMonthMetrics(
                        calc.in.allQuotes,
                        IF calc.in.month = 0 THEN 11 ELSE calc.in.month - 1,
                        calc.in.year)])
    /\ UNCHANGED appVars

\* the effect on [selectedMonth, selectedYear, allQuotes]
UpdateMetrics ==
    /\ calc.fn = "input"
    /\ Applied("metrics",
               [monthlyData |->
                    calculateMonthlyMetrics(calc.in.allQuotes, calc.in.month,
                                            calc.in.year),
                previousMonthData |->
                    calculatePreviousMonthMetrics(
                        calc.in.allQuotes,
                        IF calc.in.month = 0 THEN 11 ELSE calc.in.month - 1,
                        IF calc.in.month = 0
                        THEN calc.in.year - 1 ELSE calc.in.year)])
    /\ UNCHANGED appVars

ReportsInit ==
    /\ AppInit
    /\ calc \in {[fn |-> "input",
                  in |-> [allQuotes |-> c, month |-> sel.month,
                          year |-> sel.year],
                  out |-> <<>>] : c \in Collections, sel \in Selections}

SpecReports == ReportsInit /\ [][UpdateMetrics]_vars

----------------------------------------------------------------------------
\* TeamJoinScreen.verifyEmail and the SQL function find_team_invitation.
\* A string is a sequence of one-character strings; <<>> as a stored email is
\* NULL.  The rows of invited_team_members are a sequence in the order a
\* select('*') returns them.

\* largest number of rows of invited_team_members
MaxInvites == 2

TypedEmails ==
    {<<"a", "@", "x">>, <<"A", "@", "x", " ">>, <<"b", "a", "@", "x">>,
     <<"a", "@", "y">>, <<" ">>}

StoredEmails ==
    {<<"a", "@", "x">>, <<"A", "@", "x">>, <<"b", "a", "@", "x">>,
     <<"a", "@", "y">>, <<>>}

BusinessIds == {"b1", "b2"}

InviteRows == [email : StoredEmails, business_id : BusinessIds]

InviteTables == UNION {[1..n -> InviteRows] : n \in 0..MaxInvites}

\* String.prototype.toLowerCase, SQL LOWER
toLowerCase(str) ==
    [i \in DOMAIN str |->
         CASE str[i] = "A" -> "a"
           [] str[i] = "B" -> "b"
           [] OTHER -> str[i]]

RECURSIVE trimStart(_)
trimStart(str) ==
    IF str # <<>> /\ Head(str) = " " THEN trimStart(Tail(str)) ELSE str

RECURSIVE trimEnd(_)
trimEnd(str) ==
    IF str # <<>> /\ str[Len(str)] = " "
    THEN trimEnd(SubSeq(str, 1, Len(str) - 1)) ELSE str

\* String.prototype.trim
trim(str) == trimEnd(trimStart(str))

\* a.includes(b), a LIKE '%' || b || '%'
includes(a, b) ==
    \E i \in 0..Len(a) : i + Len(b) <= Len(a) /\ SubSeq(a, i + 1, i + Len(b)) = b

\* SPLIT_PART(str, '@', 1)
SPLIT_PART(str) ==
    IF \E i \in DOMAIN str : str[i] = "@"
    THEN SubSeq(str, 1, (CHOOSE i \in DOMAIN str :
                             /\ str[i] = "@"
                             /\ \A j \in 1..(i - 1) : str[j] # "@") - 1)
    ELSE str

\* the rows find_team_invitation(email_param) returns: the UNION of its three
\* SELECTs, which has no ORDER BY
find_team_invitation(rows, email_param) ==
    {i \in DOMAIN rows :
        /\ rows[i].email # <<>>
        /\ \/ toLowerCase(rows[i].email) = toLowerCase(email_param)
           \/ includes(toLowerCase(rows[i].email), toLowerCase(email_param))
           \/ includes(toLowerCase(email_param), toLowerCase(rows[i].email))
           \/ SPLIT_PART(toLowerCase(rows[i].email))
                  = SPLIT_PART(toLowerCase(email_param))}

\* allInvites.find(inv => inv.email && inv.email.toLowerCase() === trimmedEmail)
exactMatch(allInvites, trimmedEmail) ==
    {i \in DOMAIN allInvites :
        /\ allInvites[i].email # <<>>
        /\ toLowerCase(allInvites[i].email) = trimmedEmail}

\* allInvites.find(inv => inv.email && (... includes ... || ... includes ...))
partialMatch(allInvites, trimmedEmail) ==
    {i \in DOMAIN allInvites :
        /\ allInvites[i].email # <<>>
        /\ \/ includes(toLowerCase(allInvites[i].email), trimmedEmail)
           \/ includes(trimmedEmail, toLowerCase(allInvites[i].email))}

\* .ilike('email', `%${trimmedEmail}%`)
ilikeData(rows, trimmedEmail) ==
    {i \in DOMAIN rows :
        /\ rows[i].email # <<>>
        /\ includes(toLowerCase(rows[i].email), toLowerCase(trimmedEmail))}

\* Array.prototype.find over a set of matching indices: the first one
First(indices) == CHOOSE i \in indices : \A j \in indices : i <= j

trimmedEmail == toLowerCase(trim(calc.in.email))

\* setTeamInviteFound(true); setBusinessId(id); setStep(2)
InviteFound(id, via) ==
    calc' = [fn |-> "found", in |-> calc.in,
             out |-> [businessId |-> id, via |-> via]]

VerifyMoves(fn) == calc' = [calc EXCEPT !.fn = fn]

\* verifyEmail with nothing typed
verifyEmailBlank ==
    /\ calc.fn = "input"
    /\ trim(calc.in.email) = <<>>
    /\ VerifyMoves("Please enter your email")
    /\ UNCHANGED appVars

\* the RPC returns rows: rpcData[0] is taken
RpcFound ==
    /\ calc.fn = "input"
    /\ trim(calc.in.email) # <<>>
    /\ \E i \in find_team_invitation(calc.in.rows, trimmedEmail) :
           InviteFound(calc.in.rows[i].business_id, "rpc")
    /\ UNCHANGED appVars

\* the RPC fails or returns no row
RpcNothing ==
    /\ calc.fn = "input"
    /\ trim(calc.in.email) # <<>>
    /\ VerifyMoves("allInvites")
    /\ UNCHANGED appVars

\* select('*') returns the table and a row matches exactly or partially
AllInvitesFound ==
    /\ calc.fn = "allInvites"
    /\ partialMatch(calc.in.rows, trimmedEmail) # {}
    /\ InviteFound(
           calc.in.rows[
               IF exactMatch(calc.in.rows, trimmedEmail) # {}
               THEN First(exactMatch(calc.in.rows, trimmedEmail))
               ELSE First(partialMatch(calc.in.rows, trimmedEmail))].business_id,
           IF exactMatch(calc.in.rows, trimmedEmail) # {}
           THEN "exactMatch" ELSE "partialMatch")
    /\ UNCHANGED appVars

\* select('*') fails, or returns nothing that matches
AllInvitesNothing ==
    /\ calc.fn = "allInvites"
    /\ VerifyMoves("ilike")
    /\ UNCHANGED appVars

\* the ilike query returns rows: ilikeData[0] is taken
IlikeFound ==
    /\ calc.fn = "ilike"
    /\ \E i \in ilikeData(calc.in.rows, trimmedEmail) :
           InviteFound(calc.in.rows[i].business_id, "ilike")
    /\ UNCHANGED appVars

\* the ilike query fails or returns no row
IlikeNothing ==
    /\ calc.fn = "ilike"
    /\ VerifyMoves("No Invitation Found")
    /\ UNCHANGED appVars

verifyEmail ==
    \/ verifyEmailBlank
    \/ RpcFound
    \/ RpcNothing
    \/ AllInvitesFound
    \/ AllInvitesNothing
    \/ IlikeFound
    \/ IlikeNothing

InviteInit ==
    /\ AppInit
    /\ calc \in [fn : {"input"},
                 in : [email : TypedEmails, rows : InviteTables],
                 out : {<<>>}]

SpecInvite == InviteInit /\ [][verifyEmail]_vars

----------------------------------------------------------------------------
\* Properties

IdsIn(seq) == {seq[i].id : i \in DOMAIN seq}

IdsOf(q) == UNION {IdsIn(q[s]) : s \in StageSet}

\* the stages (1 Draft .. 5 Complete) whose bucket holds the id
StagesOf(q, id) == {k \in DOMAIN tabs : id \in IdsIn(q[tabs[k]])}

Occurrences(seq, id) == Cardinality({i \in DOMAIN seq : seq[i].id = id})

InOneBucketOnce(q, id) ==
    /\ Cardinality(StagesOf(q, id)) = 1
    /\ \A s \in StageSet : Occurrences(q[s], id) <= 1

\* the collections an observer can read: the in-memory state, the stored
\* snapshot and the snapshots being written
Snapshots == {quotes, storage.val} \cup {ioq[i].val : i \in DOMAIN ioq}

\* C1: at every observation point every quote id of the collection is in
\* exactly one of the five buckets, and once in it.
StageInvariant == \A id \in IdsOf(quotes) : InOneBucketOnce(quotes, id)

\* C2: no in-memory state and no snapshot written to storage has a quote in two
\* buckets, and no step leaves a quote of the collection in no bucket, also when
\* handlers computed from the same captured snapshot are applied one after
\* the other.
TransitionsAtomic ==
    [][ /\ \A q \in Snapshots' : \A id \in IdsOf(q) :
              Cardinality(StagesOf(q, id)) = 1
        /\ \A id \in IdsOf(quotes) :
              \/ id \in IdsOf(quotes')
              \/ quotes' = deletedState(quotes, quotes, id)
      ]_vars

\* C3: a quote's stage never moves backward, a move advances it by exactly one
\* stage, a quote enters in Draft or Sent, a quote in Complete stays in
\* Complete, and a paid quote is never unpaid again.
StageMonotonic ==
    [][ \A id \in AnyIds :
          LET before == StagesOf(quotes, id)
              after == StagesOf(quotes', id)
          IN  /\ before # {} =>
                    \A a \in after : \E b \in before : a = b \/ a = b + 1
              /\ before = {} => after \subseteq {1, 2}
              /\ 5 \in before => 5 \in after
              /\ \A i \in DOMAIN quotes["Complete"] :
                    (quotes["Complete"][i].id = id /\ quotes["Complete"][i].isPaid)
                    => \E j \in DOMAIN quotes'["Complete"] :
                          /\ quotes'["Complete"][j].id = id
                          /\ quotes'["Complete"][j].isPaid
      ]_vars

\* ---- steps, recognised by what only they do ----

\* a markFinalPayment that found its quote
FinalPaymentStep ==
    alert' = "Final payment marked as received!" /\ quotes' # quotes

\* a resendQuote that found its quote
ResendStep == alert' = "Quote resent successfully!" /\ quotes' # quotes

\* the focus effect applying a 'send_quote'
SendStep == params.action = "send_quote" /\ params' = NoParams

\* handleSendQuote passing validation
SendTapStep == Len(inflight') = Len(inflight) + 1

\* resetQuotes completing
ResetStep ==
    quotes' = initialMockData /\ alert' = "All quotes have been cleared."

\* a direct call whose id is not in the bucket the handler looks in
NotFoundStep == call' # call /\ call'.outcome = "notfound"

AllFiveSet(q) ==
    /\ q.date # 0 /\ q.acceptedDate # 0 /\ q.depositDate # 0
    /\ q.completedDate # 0 /\ q.finalPaymentDate # 0

\* C4 (Scenario B): the markFinalPayment that ends the sequence send, accept,
\* markDepositPaid, markWorkComplete, markFinalPayment leaves the quote in
\* Complete, paid, with all five timestamps set and its id in no other bucket;
\* and so is every paid quote.
ScenarioB ==
    [][ /\ FinalPaymentStep =>
              \E i \in DOMAIN quotes["Complete"] :
                  /\ ~quotes["Complete"][i].isPaid
                  /\ i \in DOMAIN quotes'["Complete"]
                  /\ quotes'["Complete"][i].id = quotes["Complete"][i].id
                  /\ quotes'["Complete"][i].isPaid
        /\ \A i \in DOMAIN quotes'["Complete"] :
              LET q == quotes'["Complete"][i]
              IN  q.isPaid => AllFiveSet(q) /\ StagesOf(quotes', q.id) = {5}
      ]_vars

\* a quote that started as a draft has gone through the whole sequence
ScenarioBDone ==
    \E i \in DOMAIN quotes["Complete"] :
        quotes["Complete"][i].isPaid /\ quotes["Complete"][i].id[1] = "d"

\* C5: a transition called with an id that is not in its source bucket leaves
\* the collection unchanged and reports 'not found' to the caller.
NotFoundReported ==
    [][ NotFoundStep => quotes' = quotes /\ alert' = "not found" ]_vars

\* C6: markFinalPayment acts on an unpaid quote of Complete only: it sets
\* finalPaymentDate = today and isPaid where the quote is and leaves every other
\* quote alone; and no step changes a paid quote, so a finalPaymentDate once
\* set is never overwritten.
FinalPaymentOnce ==
    [][ LET C == quotes["Complete"]
            D == quotes'["Complete"]
        IN  /\ FinalPaymentStep =>
                  /\ \A s \in StageSet \ {"Complete"} : quotes'[s] = quotes[s]
                  /\ Len(D) = Len(C)
                  /\ \E id \in IdsIn(C) :
                        /\ \E i \in DOMAIN C : C[i].id = id /\ ~C[i].isPaid
                        /\ \A i \in DOMAIN C :
                              /\ C[i].id # id => D[i] = C[i]
                              /\ (C[i].id = id /\ ~C[i].isPaid) =>
                                    /\ D[i].id = id /\ D[i].isPaid
                                    /\ D[i].finalPaymentDate = today
            /\ ~ResetStep =>
                  \A i \in DOMAIN C :
                      C[i].isPaid =>
                          LET j == i + Len(D) - Len(C)
                          IN  j \in DOMAIN D /\ D[j] = C[i]
      ]_vars

\* the timestamps of a quote in the order of its lifecycle
StampOrder ==
    <<"date", "acceptedDate", "depositDate", "completedDate", "finalPaymentDate">>

\* each timestamp that is set follows one that is set and not later
Ordered(q) ==
    \A k \in 2..Len(StampOrder) :
        q[StampOrder[k]] # 0 =>
            /\ q[StampOrder[k - 1]] # 0
            /\ q[StampOrder[k - 1]] <= q[StampOrder[k]]

IsPrefix(a, b) == Len(a) <= Len(b) /\ SubSeq(b, 1, Len(a)) = a

\* r as it was, with timestamps added and sentDates appended to
Extends(r2, r) ==
    /\ r2.id = r.id
    /\ \A k \in DOMAIN StampOrder :
          r[StampOrder[k]] # 0 => r2[StampOrder[k]] = r[StampOrder[k]]
    /\ IsPrefix(r.sentDates, r2.sentDates)

\* C7: timestamps are append-only: as long as a quote is in the collection,
\* every record of it lives on with the timestamps it had and with sentDates
\* only appended to; and the timestamps of a record are in lifecycle order.
TimestampsAppendOnly ==
    [][ /\ \A s \in StageSet : \A i \in DOMAIN quotes[s] :
              quotes[s][i].id \in IdsOf(quotes') =>
                  \E s2 \in StageSet : \E j \in DOMAIN quotes'[s2] :
                      Extends(quotes'[s2][j], quotes[s][i])
        /\ \A s \in StageSet : \A i \in DOMAIN quotes'[s] : Ordered(quotes'[s][i])
      ]_vars

\* C8: a resend appends today to the sentDates of the quote, where it is in
\* Sent, and changes nothing else (so two resends on one day add two equal
\* entries and leave date as it was).
ResendAppends ==
    [][ ResendStep =>
          LET S == quotes["Sent"]
              T == quotes'["Sent"]
          IN  /\ \A s \in StageSet \ {"Sent"} : quotes'[s] = quotes[s]
              /\ Len(T) = Len(S)
              /\ \E id \in IdsIn(S) :
                    \A i \in DOMAIN S :
                        T[i] = IF S[i].id = id
                               THEN [S[i] EXCEPT !.sentDates = Append(@, today)]
                               ELSE S[i]
      ]_vars

NoHardDelete ==
    [][ \A id \in IdsOf(quotes) :
          \/ id \in IdsOf(quotes')
          \/ /\ activeTab = "Draft"
             /\ quotes' = [quotes EXCEPT !["Draft"] = FilterOut(@, id)]
          \/ ResetStep
      ]_vars

\* a quote went through every transition and is still there, paid and stored
KeptToTheEnd ==
    /\ \E i \in DOMAIN quotes["Complete"] : quotes["Complete"][i].isPaid
    /\ storage.val = quotes

FailuresNotFatal ==
    [][(logged' # logged) =>
          /\ activeScreen' = activeScreen
          /\ storage' = storage
          /\ (Head(ioq).op \in {"set", "resetset", "allset", "deadget"}) =>
                 /\ quotes' = quotes
                 /\ activeTab' = activeTab
                 /\ isInitialized' = isInitialized
          /\ (Head(ioq).op \in {"get", "initset"}) =>
                 /\ quotes' = initialMockData
                 /\ isInitialized']_vars

\* after a failed write the collection went on changing: a quote was accepted in
\* memory while storage never received one
AuthoritativeAfterFailure ==
    /\ logged.msg = "Error saving quotes"
    /\ quotes["Accepted"] # <<>>
    /\ ~storage.present
    /\ ioq = <<>>

\* Scenario A: line items [{qty 2, price 50}], vat 15 %, deposit 50 %
ScenarioA ==
    [lineItems |-> <<[quantity |-> 2, price |-> 50000]>>,
     vatPercentage |-> 15, depositPercentage |-> 50]

\* r is n / d rounded half up to a whole number
Rounds(r, n, d) == 2 * r * d <= 2 * n + d /\ 2 * n + d < 2 * (r + 1) * d

RendererShowsFormAmounts ==
    (calc.fn \in {"quotePDF", "invoicePDF"}) =>
        /\ calc.out.subtotal = subtotal(calc.in.lineItems)
        /\ calc.out.vatAmount = vatAmount(calc.in.lineItems,
                                          calc.in.vatPercentage)
        /\ calc.out.serviceChargeAmount = serviceChargeAmount(calc.in.lineItems)
        /\ calc.out.total = sentQuoteOf(calc.in).amount
        /\ calc.out.depositAmount =
               depositAmount(calc.in.lineItems, calc.in.vatPercentage,
                             calc.in.depositPercentage)

\* the indices of seq whose date field is in the month of the year
InPeriod(seq, field, month, year) ==
    {i \in DOMAIN seq : seq[i][field].month = month /\ seq[i][field].year = year}

\* Scenario E: one Deposit of 100.00 and one Final Payment of 50.00
ScenarioE(payments) ==
    /\ Len(payments) = 2
    /\ payments[1].paymentType = "Deposit"
    /\ payments[1].paymentAmount = 10000 * 20000
    /\ payments[2].paymentType = "Final Payment"
    /\ payments[2].paymentAmount = 5000 * 20000

\* C16: the combined payments of a month are one Deposit per quote of Scheduled
\* Work or Complete whose depositDate is in the month followed by one Final
\* Payment per quote of Complete whose finalPaymentDate is in the month, each
\* dated by that date; gross revenue is the sum of their amounts, the service
\* fees 0.5 % of it and net revenue the difference; Scenario E gives 150.00,
\* 0.75 and 149.25.
CombinedPaymentsRight ==
    (calc.fn = "metrics") =>
        LET all == calc.in.allQuotes
            m == calc.in.month
            y == calc.in.year
            data == calc.out.monthlyData
            payments == data.combinedPayments
            deposits ==
                Cardinality(InPeriod(all["Scheduled Work"], "depositDate", m, y))
                    + Cardinality(InPeriod(all["Complete"], "depositDate", m, y))
            finals ==
                Cardinality(InPeriod(all["Complete"], "finalPaymentDate", m, y))
        IN  /\ Len(payments) = deposits + finals
            /\ \A i \in DOMAIN payments :
                   /\ payments[i].paymentType =
                          IF i <= deposits THEN "Deposit" ELSE "Final Payment"
                   /\ payments[i].paymentDate = [year |-> y, month |-> m]
                   /\ payments[i].paymentDate =
                          IF i <= deposits
                          THEN payments[i].payment.depositDate
                          ELSE payments[i].payment.finalPaymentDate
            /\ data.revenue =
                   SumOver([i \in DOMAIN payments |-> payments[i].paymentAmount],
                           Len(payments))
            /\ data.serviceFees * 200 = data.revenue
            /\ data.netRevenue = data.revenue - data.serviceFees
            /\ ScenarioE(payments) =>
                   /\ data.revenue = 15000 * 20000
                   /\ data.serviceFees = 75 * 20000
                   /\ data.netRevenue = 14925 * 20000

\* Scenario E has been computed
ScenarioEComputed ==
    /\ calc.fn = "metrics"
    /\ ScenarioE(calc.out.monthlyData.combinedPayments)
    /\ calc.out.monthlyData.netRevenue = 14925 * 20000

\* the quotes behind the deposit payments of the month, in their order
DepositQuotes(all, m, y) ==
    LET paid(quote) ==
            quote.depositDate.month = m /\ quote.depositDate.year = y
    IN  SelectSeq(all["Scheduled Work"], paid) \o SelectSeq(all["Complete"], paid)

\* C17: every deposit payment of the month amounts to the quote's
\* depositAmount field when it has one and otherwise to the quote's amount
\* times the quote's own depositPercentage / 100, whatever that percentage is,
\* 0 included.
DepositUsesOwnPercentage ==
    (calc.fn = "metrics") =>
        LET from == DepositQuotes(calc.in.allQuotes, calc.in.month, calc.in.year)
            payments == calc.out.monthlyData.combinedPayments
        IN  \A i \in DOMAIN from :
                /\ payments[i].paymentType = "Deposit"
                /\ payments[i].paymentAmount =
                       IF from[i].depositAmount # 0
                       THEN from[i].depositAmount * 20000
                       ELSE from[i].amount * from[i].depositPercentage * 200

\* the numbers of quotes sent in the month that count for the conversion rate
SentInMonth(all, m, y) ==
    Cardinality(InPeriod(all["Sent"], "date", m, y))
        + Cardinality(InPeriod(all["Accepted"], "date", m, y))
        + Cardinality(InPeriod(all["Scheduled Work"], "date", m, y))
        + Cardinality(InPeriod(all["Complete"], "date", m, y))

AcceptedInMonth(all, m, y) ==
    Cardinality(InPeriod(all["Accepted"], "date", m, y))
        + Cardinality(InPeriod(all["Scheduled Work"], "date", m, y))
        + Cardinality(InPeriod(all["Complete"], "date", m, y))

ConversionOf(rate, all, m, y) ==
    /\ rate.den > 0
    /\ 0 <= rate.num /\ rate.num <= 100 * rate.den
    /\ (SentInMonth(all, m, y) = 0) => rate.num = 0
    /\ (SentInMonth(all, m, y) > 0) =>
           rate = Ratio(100 * AcceptedInMonth(all, m, y), SentInMonth(all, m, y))

\* the month before month m of year y
PreviousMonth(m, y) ==
    IF m = 0 THEN [month |-> 11, year |-> y - 1] ELSE [month |-> m - 1, year |-> y]

\* C18: the conversion rate of the selected month and that of the month before
\* lie between 0 and 100 and are 0 when no quote was sent in the month; the
\* rate is the number of quotes dated in the month that are in Accepted,
\* Scheduled Work or Complete over the number dated in the month in Sent,
\* Accepted, Scheduled Work or Complete.
ConversionBounded ==
    (calc.fn = "metrics") =>
        /\ ConversionOf(calc.out.monthlyData.quoteConversion,
                        calc.in.allQuotes, calc.in.month, calc.in.year)
        /\ ConversionOf(calc.out.previousMonthData.quoteConversion,
                        calc.in.allQuotes,
                        PreviousMonth(calc.in.month, calc.in.year).month,
                        PreviousMonth(calc.in.month, calc.in.year).year)

\* one quote of the month still in Sent and one moved on: a rate of 50 %
HalfConverted ==
    /\ calc.fn = "metrics"
    /\ calc.out.monthlyData.quoteConversion = Ratio(100, 2)

\* the fields of monthlyData that previousMonthData has
Compared(data) ==
    [revenue |-> data.revenue, netRevenue |-> data.netRevenue,
     serviceFees |-> data.serviceFees, depositRevenue |-> data.depositRevenue,
     finalPaymentRevenue |-> data.finalPaymentRevenue,
     jobsCompleted |-> data.jobsCompleted,
     quoteConversion |-> data.quoteConversion,
     averageJobSize |-> data.averageJobSize]

\* C19: the metrics shown for the previous month are what
\* calculateMonthlyMetrics gives for the month before the selected one, December
\* of the year before when January is selected: the same revenue, net revenue,
\* service fees, deposit and final payment revenue, jobs completed, conversion
\* rate and average job size.
PreviousIsShifted ==
    (calc.fn = "metrics") =>
        calc.out.previousMonthData =
            Compared(calculateMonthlyMetrics(
                         calc.in.allQuotes,
                         PreviousMonth(calc.in.month, calc.in.year).month,
                         PreviousMonth(calc.in.month, calc.in.year).year))

\* January selected, with revenue and a completed job in the December before
DecemberCompared ==
    /\ calc.fn = "metrics"
    /\ calc.in.month = 0
    /\ calc.out.previousMonthData.revenue > 0
    /\ calc.out.previousMonthData.jobsCompleted > 0
    /\ calc.out.previousMonthData.quoteConversion.num > 0

\* the business ids of the rows of the strictest tier that matches the email:
\* exact, else containment either way, else equal local parts
TierIds(rows, email) ==
    LET stored(i) == toLowerCase(rows[i].email)
        present == {i \in DOMAIN rows : rows[i].email # <<>>}
        tier1 == {i \in present : stored(i) = email}
        tier2 == {i \in present :
                     includes(stored(i), email) \/ includes(email, stored(i))}
        tier3 == {i \in present : SPLIT_PART(stored(i)) = SPLIT_PART(email)}
        tier == IF tier1 # {} THEN tier1 ELSE IF tier2 # {} THEN tier2 ELSE tier3
    IN  {rows[i].business_id : i \in tier}

\* C20: the business id resolved for an email is that of an invitation of the
\* strictest tier with a match: of an exact match of the normalised email when
\* there is one, else of a containment match, else of a local-part match.
StrictestTierWins ==
    (calc.fn = "found") =>
        calc.out.businessId \in TierIds(calc.in.rows, trimmedEmail)

\* ---------------------------------------------------------------------------
\* TeamJoinScreen: the join flow over the invitation store
\* ---------------------------------------------------------------------------

InviteStatuses == {"pending", "active"}

Invitations ==
    [email : StoredEmails, business_id : BusinessIds, status : InviteStatuses]

InvitationTables == UNION {[1..n -> Invitations] : n \in 0..MaxInvites}

Passwords == {<<" ">>, <<"p", "w">>, <<"s", "e", "c", "r", "e", "t">>}

MinPasswordLength == 6

invited == supabase.invited_team_members

\* email.trim().toLowerCase() of the typed email
cleanEmail == toLowerCase(trim(join.email))

JoinMoves(at, msg) == join' = [join EXCEPT !.at = at, !.alert = msg]

\* setTeamInviteFound(true); setBusinessId(row.business_id); setStep(2)
JoinFound(i, via) ==
    join' = [join EXCEPT !.teamInviteFound = TRUE,
                         !.businessId = invited[i].business_id,
                         !.step = 2, !.at = "idle", !.alert = "none",
                         !.matched = i, !.via = via]

JoinIdle == join.at = "idle" /\ join.step = 1

\* three taps on the title
enableDebugMode ==
    /\ ~join.debugMode
    /\ join' = [join EXCEPT !.debugMode = TRUE]
    /\ UNCHANGED <<dashVars, userRole, supabase, team>>

\* verifyEmail with a blank email
JoinVerifyBlank ==
    /\ JoinIdle
    /\ trim(join.email) = <<>>
    /\ JoinMoves("idle", "Please enter your email")
    /\ UNCHANGED <<dashVars, userRole, supabase, team>>

\* verifyEmail: the RPC returns rows and rpcData[0] is taken
JoinRpcFound ==
    /\ JoinIdle
    /\ trim(join.email) # <<>>
    /\ \E i \in find_team_invitation(invited, cleanEmail) : JoinFound(i, "rpc")
    /\ UNCHANGED <<dashVars, userRole, supabase, team>>

\* verifyEmail: the RPC fails or returns no row
JoinRpcNothing ==
    /\ JoinIdle
    /\ trim(join.email) # <<>>
    /\ JoinMoves("allInvites", "none")
    /\ UNCHANGED <<dashVars, userRole, supabase, team>>

\* verifyEmail: select('*'), then exactMatch, else partialMatch
JoinAllInvitesFound ==
    /\ join.at = "allInvites"
    /\ partialMatch(invited, cleanEmail) # {}
    /\ IF exactMatch(invited, cleanEmail) # {}
       THEN JoinFound(First(exactMatch(invited, cleanEmail)), "exactMatch")
       ELSE JoinFound(First(partialMatch(invited, cleanEmail)), "partialMatch")
    /\ UNCHANGED <<dashVars, userRole, supabase, team>>

\* verifyEmail: select('*') fails or nothing matches
JoinAllInvitesNothing ==
    /\ join.at = "allInvites"
    /\ JoinMoves("ilike", "none")
    /\ UNCHANGED <<dashVars, userRole, supabase, team>>

\* verifyEmail: the ilike query returns rows and ilikeData[0] is taken
JoinIlikeFound ==
    /\ join.at = "ilike"
    /\ \E i \in ilikeData(invited, cleanEmail) : JoinFound(i, "ilike")
    /\ UNCHANGED <<dashVars, userRole, supabase, team>>

\* verifyEmail: the ilike query fails or returns no row
JoinIlikeNothing ==
    /\ join.at = "ilike"
    /\ JoinMoves("idle", "No Invitation Found")
    /\ UNCHANGED <<dashVars, userRole, supabase, team>>

\* regularData.find(inv => inv.email &&
\*     inv.email.toLowerCase().includes(cleanEmail.split('@')[0]))
foundInvite(rows, email) ==
    {i \in DOMAIN rows :
        /\ rows[i].email # <<>>
        /\ includes(toLowerCase(rows[i].email), SPLIT_PART(email))}

\* directDatabaseQuery with a blank email
DirectBlank ==
    /\ JoinIdle /\ join.debugMode
    /\ trim(join.email) = <<>>
    /\ JoinMoves("idle", "Please enter your email")
    /\ UNCHANGED <<dashVars, userRole, supabase, team>>

\* directDatabaseQuery: the RPC answers with rows and data[0] is taken
DirectRpcFound ==
    /\ JoinIdle /\ join.debugMode
    /\ trim(join.email) # <<>>
    /\ \E i \in find_team_invitation(invited, cleanEmail) : JoinFound(i, "sql")
    /\ UNCHANGED <<dashVars, userRole, supabase, team>>

\* directDatabaseQuery: the RPC answers with no row
DirectRpcEmpty ==
    /\ JoinIdle /\ join.debugMode
    /\ trim(join.email) # <<>>
    /\ find_team_invitation(invited, cleanEmail) = {}
    /\ JoinMoves("idle", "No Invitation Found")
    /\ UNCHANGED <<dashVars, userRole, supabase, team>>

\* directDatabaseQuery: the RPC answers with an error
DirectRpcError ==
    /\ JoinIdle /\ join.debugMode
    /\ trim(join.email) # <<>>
    /\ JoinMoves("regular", "none")
    /\ UNCHANGED <<dashVars, userRole, supabase, team>>

\* directDatabaseQuery: the fallback select('*') throws
DirectRegularError ==
    /\ join.at = "regular"
    /\ JoinMoves("idle", "Error querying database")
    /\ UNCHANGED <<dashVars, userRole, supabase, team>>

\* directDatabaseQuery: foundInvite in the fallback select('*')
DirectRegularFound ==
    /\ join.at = "regular"
    /\ foundInvite(invited, cleanEmail) # {}
    /\ JoinFound(First(foundInvite(invited, cleanEmail)), "fallback")
    /\ UNCHANGED <<dashVars, userRole, supabase, team>>

\* directDatabaseQuery: no foundInvite; "last resort", a business is listed
\* and an invitation for the typed email is inserted into it
DirectInsert ==
    /\ join.at = "regular"
    /\ foundInvite(invited, cleanEmail) = {}
    /\ \E b \in BusinessIds :
        /\ supabase' = [supabase EXCEPT !.invited_team_members =
               Append(@, [email |-> cleanEmail, business_id |-> b,
                          status |-> "pending"])]
        /\ join' = [join EXCEPT !.at = "created",
                                !.alert = "Invitation Created",
                                !.matched = Len(invited) + 1]
    /\ UNCHANGED <<dashVars, userRole, team>>

\* directDatabaseQuery: no business listed, or the insert fails
DirectGiveUp ==
    /\ join.at = "regular"
    /\ foundInvite(invited, cleanEmail) = {}
    /\ JoinMoves("idle", "Database Error")
    /\ UNCHANGED <<dashVars, userRole, supabase, team>>

\* OK of 'Invitation Created'
InvitationCreatedOK ==
    /\ join.at = "created"
    /\ JoinFound(join.matched, "created")
    /\ UNCHANGED <<dashVars, userRole, supabase, team>>

verifyEmailFlow ==
    \/ JoinVerifyBlank
    \/ JoinRpcFound
    \/ JoinRpcNothing
    \/ JoinAllInvitesFound
    \/ JoinAllInvitesNothing
    \/ JoinIlikeFound
    \/ JoinIlikeNothing

directDatabaseQuery ==
    \/ DirectBlank
    \/ DirectRpcFound
    \/ DirectRpcEmpty
    \/ DirectRpcError
    \/ DirectRegularError
    \/ DirectRegularFound
    \/ DirectInsert
    \/ DirectGiveUp
    \/ InvitationCreatedOK

\* onChangeText of the two password fields of step 2
setPassword ==
    /\ join.step = 2 /\ join.at = "idle"
    /\ \E p \in Passwords, c \in Passwords :
        /\ <<p, c>> # <<join.password, join.confirmPassword>>
        /\ join' = [join EXCEPT !.password = p, !.confirmPassword = c,
                                !.alert = "none"]
    /\ UNCHANGED <<dashVars, userRole, supabase, team>>

\* the guards without the length test
createAccountErrorNoLength(password, confirmPassword) ==
    IF trim(password) = <<>> THEN "Please enter a password"
    ELSE IF password # confirmPassword THEN "Passwords do not match"
    ELSE "none"

\* the three guards of createAccount, in order; "none" when all pass
createAccountError(password, confirmPassword) ==
    IF trim(password) = <<>> THEN "Please enter a password"
    ELSE IF password # confirmPassword THEN "Passwords do not match"
    ELSE IF Len(password) < MinPasswordLength
         THEN "Password must be at least 6 characters"
    ELSE "none"

\* createAccount up to the signUp call: at "signUp" the call is in flight
createAccount ==
    /\ join.step = 2 /\ join.at = "idle"
    /\ LET error == createAccountError(join.password, join.confirmPassword)
       IN  IF error # "none"
           THEN JoinMoves("idle", error)
           ELSE JoinMoves("signUp", "none")
    /\ UNCHANGED <<dashVars, userRole, supabase, team>>

\* signUp({email: email.toLowerCase(), ...}) creates the user
SignUpCreated ==
    /\ join.at = "signUp"
    /\ toLowerCase(join.email) \notin supabase.users
    /\ supabase' = [supabase EXCEPT !.users = @ \cup {toLowerCase(join.email)}]
    /\ JoinMoves("inviteUpdate", "Account Created")
    /\ UNCHANGED <<dashVars, userRole, team>>

\* signUp answers "already registered" and signIn succeeds
SignUpAlreadyRegistered ==
    /\ join.at = "signUp"
    /\ toLowerCase(join.email) \in supabase.users
    /\ JoinMoves("inviteUpdate", "Team Joined Successfully")
    /\ UNCHANGED <<dashVars, userRole, supabase, team>>

\* signUp answers "already registered" and signIn fails
SignInFailed ==
    /\ join.at = "signUp"
    /\ toLowerCase(join.email) \in supabase.users
    /\ JoinMoves("idle", "Account Already Exists")
    /\ UNCHANGED <<dashVars, userRole, supabase, team>>

\* signUp answers any other error
SignUpError ==
    /\ join.at = "signUp"
    /\ JoinMoves("idle", "Account creation failed")
    /\ UNCHANGED <<dashVars, userRole, supabase, team>>

\* .update({ status: 'active' }).eq('email', email): eq compares text exactly
updateStatusActive(rows, email) ==
    [i \in DOMAIN rows |->
        IF rows[i].email = email
        THEN [rows[i] EXCEPT !.status = "active"] ELSE rows[i]]

\* the invitation update is made, then the success alert is shown
InviteUpdate ==
    /\ join.at = "inviteUpdate"
    /\ supabase' = [supabase EXCEPT !.invited_team_members =
                        updateStatusActive(@, toLowerCase(join.email))]
    /\ join' = [join EXCEPT !.at = "done"]
    /\ UNCHANGED <<dashVars, userRole, team>>

\* the invitation update fails: the error is logged, the alert is shown
InviteUpdateError ==
    /\ join.at = "inviteUpdate"
    /\ join' = [join EXCEPT !.at = "done"]
    /\ UNCHANGED <<dashVars, userRole, supabase, team>>

createAccountFlow ==
    \/ setPassword
    \/ createAccount
    \/ SignUpCreated
    \/ SignUpAlreadyRegistered
    \/ SignInFailed
    \/ SignUpError
    \/ InviteUpdate
    \/ InviteUpdateError

JoinInit ==
    /\ DashInit
    /\ calc = NoCalc
    /\ userRole = MainScreenRole
    /\ team = TeamScreenInit
    /\ supabase \in [invited_team_members : InvitationTables,
                     users : {{}, {<<"a", "@", "x">>}}]
    /\ join \in {[TeamJoinScreenInit EXCEPT !.email = e] : e \in TypedEmails}

NextJoin ==
    \/ enableDebugMode
    \/ verifyEmailFlow
    \/ directDatabaseQuery
    \/ createAccountFlow

SpecJoin == JoinInit /\ [][NextJoin]_vars

\* the invitations that match an email under one of the three tiers
AnyTier(rows, email) ==
    {i \in DOMAIN rows :
        /\ rows[i].email # <<>>
        /\ \/ toLowerCase(rows[i].email) = email
           \/ includes(toLowerCase(rows[i].email), email)
           \/ includes(email, toLowerCase(rows[i].email))
           \/ SPLIT_PART(toLowerCase(rows[i].email)) = SPLIT_PART(email)}

\* C21: the join flow moves to step 2 only with teamInviteFound and the
\* business id of a stored invitation that matches the typed email under one
\* of the tiers; while no stored invitation matches, it stays at step 1, sets
\* no business id and creates no invitation record.
ResolvesOnlyToAMatch ==
    [][/\ (join.step = 1 /\ join'.step = 2) =>
            /\ join'.teamInviteFound
            /\ \E i \in AnyTier(invited, cleanEmail) :
                   join'.businessId = invited[i].business_id
       /\ (join.step = 1 /\ AnyTier(invited, cleanEmail) = {}) =>
            /\ join'.step = 1
            /\ join'.businessId = "null"
            /\ Len(supabase'.invited_team_members) = Len(invited)]_vars

\* C22: the invitation the join flow resolves the email to has status
\* 'pending' when it is resolved: an 'active' invitation is never the match.
ResolvesOnlyToPending ==
    [][(join.step = 1 /\ join'.step = 2) =>
           invited[join'.matched].status = "pending"]_vars

\* ---------------------------------------------------------------------------
\* TeamScreen: the owner invites team members
\* ---------------------------------------------------------------------------

MaxCalls == 2
MaxMembers == 2

Names == {<<>>, <<" ">>, <<"n">>}

TeamEmails ==
    {<<>>, <<"a", "@", "x">>, <<"a", "@", "x", ".", "c">>,
     <<"A", "@", "x", ".", "c", " ">>}

\* /^[^\s@]+@[^\s@]+\.[^\s@]+$/.test(str)
emailRegex(str) ==
    /\ \A k \in DOMAIN str : str[k] # " "
    /\ \E i \in DOMAIN str, j \in DOMAIN str :
        /\ str[i] = "@" /\ str[j] = "."
        /\ \A k \in DOMAIN str : str[k] = "@" => k = i
        /\ 1 < i /\ i + 1 < j /\ j < Len(str)

\* onChangeText={setName}, onChangeText={setEmail}
TeamType ==
    /\ \E n \in Names, e \in TeamEmails :
        /\ <<n, e>> # <<team.name, team.email>>
        /\ team' = [team EXCEPT !.name = n, !.email = e, !.alert = "none"]
    /\ UNCHANGED <<dashVars, userRole, supabase, join>>

\* the guards of addTeamMember, in order; "none" when all pass
addTeamMemberError(name, email, businessId) ==
    IF trim(name) = <<>> THEN "Please enter a name"
    ELSE IF trim(email) = <<>> THEN "Please enter an email"
    ELSE IF ~emailRegex(trim(email)) THEN "Please enter a valid email address"
    ELSE IF businessId = "null" THEN "Business ID not found"
    ELSE "none"

\* addTeamMember up to its first await: the call closes over name, email,
\* businessId and teamMembers
addTeamMember ==
    /\ Len(team.calls) < MaxCalls
    /\ LET error == addTeamMemberError(team.name, team.email, team.businessId)
       IN  IF error # "none"
           THEN team' = [team EXCEPT !.alert = error]
           ELSE team' = [team EXCEPT
                    !.alert = "none",
                    !.calls = Append(@,
                        [at |-> "existingInvites",
                         cleanEmail |-> toLowerCase(trim(team.email)),
                         businessId |-> team.businessId,
                         teamMembers |-> team.teamMembers])]
    /\ UNCHANGED <<dashVars, userRole, supabase, join>>

\* .eq('email', cleanEmail).eq('business_id', businessId)
existingInvites(rows, email, businessId) ==
    {i \in DOMAIN rows :
        rows[i].email = email /\ rows[i].business_id = businessId}

CallMoves(i, at) == team' = [team EXCEPT !.calls[i].at = at]

CallEnds(i, msg) ==
    team' = [team EXCEPT !.calls = RemoveAt(@, i), !.alert = msg]

\* existingInvites is not empty: 'Already Invited'
AlreadyInvited ==
    /\ \E i \in DOMAIN team.calls :
        /\ team.calls[i].at = "existingInvites"
        /\ existingInvites(invited, team.calls[i].cleanEmail,
                           team.calls[i].businessId) # {}
        /\ CallEnds(i, "Already Invited")
    /\ UNCHANGED <<dashVars, userRole, supabase, join>>

\* existingInvites is empty
NotInvited ==
    /\ \E i \in DOMAIN team.calls :
        /\ team.calls[i].at = "existingInvites"
        /\ existingInvites(invited, team.calls[i].cleanEmail,
                           team.calls[i].businessId) = {}
        /\ CallMoves(i, "existingProfiles")
    /\ UNCHANGED <<dashVars, userRole, supabase, join>>

\* the select fails: data is null, the error is not read
ExistingInvitesError ==
    /\ \E i \in DOMAIN team.calls :
        /\ team.calls[i].at = "existingInvites"
        /\ CallMoves(i, "existingProfiles")
    /\ UNCHANGED <<dashVars, userRole, supabase, join>>

\* existingProfiles is not empty: 'Already a Member'
AlreadyAMember ==
    /\ \E i \in DOMAIN team.calls :
        /\ team.calls[i].at = "existingProfiles"
        /\ team.calls[i].cleanEmail \in supabase.users
        /\ CallEnds(i, "Already a Member")
    /\ UNCHANGED <<dashVars, userRole, supabase, join>>

\* existingProfiles is empty or null
NotAMember ==
    /\ \E i \in DOMAIN team.calls :
        /\ team.calls[i].at = "existingProfiles"
        /\ CallMoves(i, "insert")
    /\ UNCHANGED <<dashVars, userRole, supabase, join>>

\* setTeamMembers([...teamMembers, newMember]) with the teamMembers of the
\* call; 'Team Member Invited'; setName(''); setEmail('').  (saveTeamMembers
\* keeps a copy of the list under its own storage key.)
MemberInvited(i) ==
    team' = [team EXCEPT
        !.teamMembers = Append(team.calls[i].teamMembers,
                               team.calls[i].cleanEmail),
        !.name = <<>>, !.email = <<>>,
        !.calls = RemoveAt(@, i), !.alert = "Team Member Invited"]

\* addMemberToDatabase inserts the invitation
addMemberToDatabase ==
    /\ \E i \in DOMAIN team.calls :
        /\ team.calls[i].at = "insert"
        /\ Len(team.calls[i].teamMembers) < MaxMembers
        /\ Len(invited) < MaxMembers
        /\ supabase' = [supabase EXCEPT !.invited_team_members =
               Append(@, [email |-> toLowerCase(trim(team.calls[i].cleanEmail)),
                          business_id |-> team.calls[i].businessId,
                          status |-> "pending"])]
        /\ MemberInvited(i)
    /\ UNCHANGED <<dashVars, userRole, join>>

\* addMemberToDatabase fails and inviteTeamMember of the Auth context, which
\* writes to another table, succeeds
InsertFailed ==
    /\ \E i \in DOMAIN team.calls :
        /\ team.calls[i].at = "insert"
        /\ Len(team.calls[i].teamMembers) < MaxMembers
        /\ MemberInvited(i)
    /\ UNCHANGED <<dashVars, userRole, supabase, join>>

\* addMemberToDatabase fails and inviteTeamMember throws
InviteFailed ==
    /\ \E i \in DOMAIN team.calls :
        /\ team.calls[i].at = "insert"
        /\ CallEnds(i, "Failed to invite team member")
    /\ UNCHANGED <<dashVars, userRole, supabase, join>>

NextTeam ==
    \/ TeamType
    \/ addTeamMember
    \/ AlreadyInvited
    \/ NotInvited
    \/ ExistingInvitesError
    \/ AlreadyAMember
    \/ NotAMember
    \/ addMemberToDatabase
    \/ InsertFailed
    \/ InviteFailed

\* the business starts with no invitation and with or without a profile
\* for one of the emails
TeamInit ==
    /\ DashInit
    /\ calc = NoCalc
    /\ userRole = MainScreenRole
    /\ join = TeamJoinScreenInit
    /\ team = TeamScreenInit
    /\ supabase \in [invited_team_members : {<<>>},
                     users : {{}, {<<"a", "@", "x", ".", "c">>}}]

SpecTeam == TeamInit /\ [][NextTeam]_vars

\* the (business id, trimmed lower-cased email) key of an invitation
InviteKey(row) == <<row.business_id, toLowerCase(trim(row.email))>>

\* C23: the store holds at most one invitation per (business id, trimmed
\* lower-cased email), and a call of addTeamMember for an email that is
\* already invited inserts nothing.
OneInvitationPerEmail ==
    \A i, j \in DOMAIN invited :
        InviteKey(invited[i]) = InviteKey(invited[j]) => i = j

\* C29: once createAccount has succeeded ('Account Created' or 'Team Joined
\* Successfully'), the invitation the email was resolved to has status
\* 'active'.
JoinedInvitationActive ==
    (join.at = "done") => invited[join.matched].status = "active"

\* ---------------------------------------------------------------------------
\* MainScreen: the role of the signed-in user and the bottom navigation bar.
\* The owner uses one phone and an invited member goes through TeamJoinScreen
\* on another; the two share the backend.
\* ---------------------------------------------------------------------------

ScreenIds == {"dashboard", "report", "team", "settings"}

Roles == {"owner", "team_member"}

\* fetchUserProfile: getUserProfile resolves with a profile that has a role
ProfileLoaded ==
    /\ userRole.profile = "pending"
    /\ \E role \in Roles : userRole' = [role |-> role, profile |-> "loaded"]
    /\ UNCHANGED <<dashVars, supabase, join, team>>

\* fetchUserProfile: getUserProfile rejects, or the profile has no role
ProfileFailed ==
    /\ userRole.profile = "pending"
    /\ userRole' = [userRole EXCEPT !.profile = "failed"]
    /\ UNCHANGED <<dashVars, supabase, join, team>>

\* the test of handleTabChange, without the report screen
restrictedTeamOnly(role, screenId) == role # "owner" /\ screenId = "team"

\* userRole !== 'owner' && (screenId === 'report' || screenId === 'team')
restricted(role, screenId) ==
    role # "owner" /\ (screenId = "report" \/ screenId = "team")

\* TeamScreen once loadUserAndMembers has run: getTeamMembers lists the
\* invitations of the business
TeamScreenMounted ==
    [TeamScreenInit EXCEPT !.teamMembers =
        SelectSeq([i \in DOMAIN invited |-> invited[i].email],
                  LAMBDA e : \E i \in DOMAIN invited :
                      invited[i].email = e
                      /\ invited[i].business_id = TeamScreenInit.businessId)]

\* setActiveScreen(screenId): renderScreen unmounts the screen that was
\* active and mounts the new one.  A screen is left between its calls.
setActiveScreen(screenId) ==
    /\ activeScreen' = screenId
    /\ IF activeScreen = "dashboard"
       THEN /\ Visible
            /\ quotes' = initialMockData
            /\ activeTab' = "Draft"
            /\ rendered' = [quotes |-> initialMockData, activeTab |-> "Draft"]
            /\ isInitialized' = FALSE
            /\ ioq' = Orphaned(ioq)
       ELSE IF screenId = "dashboard"
       THEN /\ Len(ioq) <= MaxPending
            /\ ioq' = saveEffect(
                   Append(ioq, [op |-> "get", val |-> initialMockData]), quotes)
            /\ UNCHANGED <<quotes, activeTab, rendered, isInitialized>>
       ELSE UNCHANGED <<quotes, activeTab, rendered, isInitialized, ioq>>
    /\ IF screenId = "team" THEN team' = TeamScreenMounted
       ELSE IF activeScreen = "team"
       THEN team.calls = <<>> /\ team' = TeamScreenInit
       ELSE UNCHANGED team
    /\ alert' = "none"
    /\ UNCHANGED <<storage, formVars, today, call, logged, calc, userRole,
                   supabase, join>>

\* console.log('Access denied: ...'); return
AccessDenied ==
    /\ logged' = Logged("Access denied")
    /\ UNCHANGED <<quotes, activeTab, rendered, isInitialized, storage, ioq,
                   formVars, today, alert, call, activeScreen, calc, side>>

\* onTabChange of the BottomNavBar, which MainScreen shows under its screens
handleTabChange ==
    /\ ~form.open
    /\ \E screenId \in ScreenIds :
        /\ screenId # activeScreen
        /\ IF restricted(userRole.role, screenId)
           THEN AccessDenied
           ELSE setActiveScreen(screenId)

NextForms ==
    \/ addNewQuote
    \/ editQuote
    \/ FormEdit
    \/ GoBack
    \/ saveAsDraft
    \/ SendOnce
    \/ SendComplete
    \/ FocusEffect
    \/ LoadComplete
    \/ InitComplete
    \/ WriteComplete
    \/ OrphanLoadComplete

NextMain ==
    \/ ProfileLoaded
    \/ ProfileFailed
    \/ handleTabChange
    \/ NextForms

SpecMain == Init /\ [][NextMain]_vars

\* the owner's phone has nothing open and nothing in progress
OwnerAtRest ==
    /\ ~form.open /\ inflight = <<>> /\ ioq = <<>> /\ ~EffectPending
    /\ team.calls = <<>> /\ team.name = <<>> /\ team.email = <<>>

\* the member's phone shows the first step, or the flow is over
MemberAtRest == join.at = "done" \/ (join.at = "idle" /\ join.step = 1)

\* onTabChange for the dashboard and the team tabs, pressed at rest
TeamTab ==
    /\ OwnerAtRest
    /\ handleTabChange
    /\ activeScreen' \in {"dashboard", "team"}

\* the owner's phone, once the profile fetch has settled and while the
\* member's phone is at rest
OwnerActs ==
    /\ MemberAtRest
    /\ userRole.profile # "pending"
    /\ \/ TeamTab
       \/ NextForms
       \/ activeScreen = "team" /\ NextTeam

\* the member's phone while the owner's is at rest
MemberActs ==
    /\ OwnerAtRest
    /\ \/ verifyEmailFlow
       \/ createAccountFlow

GuardsInit ==
    /\ DashInit
    /\ calc = NoCalc
    /\ userRole = MainScreenRole
    /\ supabase = EmptyBackend
    /\ team = TeamScreenInit
    /\ join = [TeamJoinScreenInit EXCEPT !.email = <<"A", "@", "x", ".", "c">>]

NextGuards ==
    \/ ProfileLoaded
    \/ ProfileFailed
    \/ OwnerActs
    \/ MemberActs

SpecGuards == GuardsInit /\ [][NextGuards]_vars

\* C30: the active screen of MainScreen is 'report' or 'team' only when the
\* loaded role is 'owner', and a tab change that is denied leaves the active
\* screen as it was.
OwnerOnlyScreens ==
    /\ activeScreen \in {"report", "team"} => userRole.role = "owner"
    /\ userRole.profile # "loaded" => activeScreen \notin {"report", "team"}

\* a tab change was denied before the profile was loaded
DeniedWhileNotLoaded ==
    logged.msg = "Access denied" /\ userRole.profile = "pending"

\* C24: a handler that rejects its input changes nothing: a send is started
\* only with contact info that is not blank; a call of addTeamMember goes on
\* to its queries only with a name, an email and a well-formed email, and a
\* rejected one leaves the store and the local list alone; the sign-up call
\* is made only with a password that is not blank, is confirmed and has at
\* least 6 characters.
RejectedBeforeMutation ==
    [][/\ Len(inflight') > Len(inflight) => Trim(form.contactInfo) # ""
       /\ (alert # "Missing contact" /\ alert' = "Missing contact") =>
              UNCHANGED <<quotes, storage, ioq, params, inflight>>
       /\ Len(team'.calls) > Len(team.calls) =>
              /\ trim(team.name) # <<>>
              /\ trim(team.email) # <<>>
              /\ emailRegex(trim(team.email))
       /\ (team.calls = <<>> /\ team'.calls = <<>>) =>
              /\ Len(supabase'.invited_team_members) = Len(invited)
              /\ activeScreen' = activeScreen =>
                     team'.teamMembers = team.teamMembers
       /\ (join.at = "idle" /\ join'.at = "signUp") =>
              /\ trim(join.password) # <<>>
              /\ join.password = join.confirmPassword
              /\ Len(join.password) >= MinPasswordLength
       /\ (join.step = 2 /\ join.at = "idle" /\ join'.at = "idle") =>
              supabase' = supabase]_vars

\* createAccount has rejected a confirmed password that is too short
ShortPasswordRejected ==
    /\ join.alert = "Password must be at least 6 characters"
    /\ join.password = join.confirmPassword
    /\ supabase.users = {}

\* C25: when generateQuotePDF fails, the send is not passed on to the
\* dashboard (the quote is not moved to Sent, the draft stays); when a call
\* of addTeamMember ends without its invitation inserted, the local team
\* list is as it was.
FailedCallNotApplied ==
    [][/\ (Len(inflight') < Len(inflight) /\ alert' = "Quote Sent") =>
              params'.action # "send_quote"
       /\ (Len(team'.calls) < Len(team.calls)
              /\ Len(supabase'.invited_team_members) = Len(invited)) =>
              team'.teamMembers = team.teamMembers]_vars

\* a setItem of the save effect of the mounted dashboard is issued in this step
SaveIssued ==
    /\ activeScreen' = "dashboard"
    /\ ~(ioq # <<>> /\ Head(ioq).op = "deadget")
    /\ ioq' # ioq /\ ioq' # <<>>
    /\ ioq'[Len(ioq')].op = "set"
    /\ \/ Len(ioq') > Len(ioq)
       \/ ioq # <<>> /\ ioq' = Append(Tail(ioq), ioq'[Len(ioq')])

\* C26: the save effect issues a write only once isInitialized is true, and
\* then writes the collection on screen; a load that finds a stored
\* collection shows it and leaves it stored, and the write of the empty
\* collection by loadQuotes never replaces a stored collection that is not
\* empty.
NoSaveBeforeLoad ==
    [][/\ SaveIssued =>
              isInitialized' /\ ioq'[Len(ioq')].val = quotes'
       /\ (~isInitialized /\ isInitialized' /\ storage.present
              /\ ioq # <<>> /\ Head(ioq).op = "get") =>
              quotes' = storage.val /\ storage' = storage
       /\ (ioq # <<>> /\ Head(ioq).op = "initset" /\ storage' # storage) =>
              (storage.present => storage.val = initialMockData)]_vars

\* the dashboard is mounted over a stored collection that is not empty, and
\* its load is still pending
LoadPendingOverStored ==
    /\ activeScreen = "dashboard" /\ ~isInitialized
    /\ storage.present /\ storage.val # initialMockData
    /\ quotes = initialMockData
    /\ ioq # <<>> /\ Head(ioq).op = "get"

\* C27: a form action in the route params is applied once: the step of the
\* focus callback that applies it clears the params, Draft grows only by the
\* one quote of an add_draft and Sent only by the one quote of a send_quote,
\* each put at the head of its bucket.
AppliedOnce ==
    [][(isInitialized /\ isInitialized') =>
          /\ (EffectPending /\ quotes' # quotes) =>
                 params'.action = "null" /\ params'.quote = NoQuote
          /\ Len(quotes'["Draft"]) > Len(quotes["Draft"]) =>
                 /\ params.action = "add_draft"
                 /\ params'.action = "null"
                 /\ quotes'["Draft"] = <<params.quote>> \o quotes["Draft"]
          /\ Len(quotes'["Sent"]) > Len(quotes["Sent"]) =>
                 /\ params.action = "send_quote"
                 /\ params' = NoParams
                 /\ quotes'["Sent"] = <<params.quote>> \o quotes["Sent"]]_vars

\* a sent quote has been applied and the dashboard has rendered since
SendApplied ==
    /\ isInitialized /\ params = NoParams /\ ~form.open
    /\ alert = "Quote Created"
    /\ Len(quotes["Sent"]) = 1 /\ rendered.quotes = quotes

\* ---------------------------------------------------------------------------
\* A draft is saved from the form, opened again and saved without a change.
\* The input is the form state of the first save and the draft's position
\* among two drafts.
\* ---------------------------------------------------------------------------

CustomerNames == {"", "Ann"}

FormStates ==
    [customerName : CustomerNames, lineItems : LineItemSeqs,
     vatPercentage : VatValues, depositPercentage : DepositValues]

\* saveAsDraft: the draftQuote object built from the form state
draftQuoteOf(id, state) ==
    [id |-> id,
     customerName |-> state.customerName,
     amount |-> total(state.lineItems, state.vatPercentage),
     lineItems |-> state.lineItems,
     vatPercentage |-> state.vatPercentage,
     serviceChargePercentage |-> SERVICE_CHARGE_PERCENTAGE,
     depositPercentage |-> state.depositPercentage]

\* the useState initialisers of QuoteFormScreen for route.params.quote:
\* initialQuote?.customerName || '', initialQuote?.lineItems || [...],
\* initialQuote?.vatPercentage || 15, initialQuote?.depositPercentage || 50
formStateOf(initialQuote) ==
    [customerName |-> initialQuote.customerName,
     lineItems |-> initialQuote.lineItems,
     vatPercentage |-> IF initialQuote.vatPercentage = 0
                       THEN 15 ELSE initialQuote.vatPercentage,
     depositPercentage |-> IF initialQuote.depositPercentage = 0
                           THEN 50 ELSE initialQuote.depositPercentage]

\* the other draft of the list
OtherDraft ==
    draftQuoteOf(<<"d", 2>>,
                 [customerName |-> "Bob",
                  lineItems |-> <<[quantity |-> 1, price |-> 360]>>,
                  vatPercentage |-> 0, depositPercentage |-> 0])

\* the form's first saveAsDraft, applied by the dashboard
StoreDraft ==
    /\ calc.fn = "input"
    /\ LET d == draftQuoteOf(<<"d", 1>>, calc.in.state)
           Draft == IF calc.in.position = 1 THEN <<d, OtherDraft>>
                    ELSE <<OtherDraft, d>>
       IN  Applied("stored", [Draft |-> Draft, before |-> Draft])
    /\ UNCHANGED appVars

\* editQuote: QuoteFormScreen opens with route.params.quote
OpenDraft ==
    /\ calc.fn = "stored"
    /\ LET initialQuote == calc.out.Draft[calc.in.position]
       IN  Applied("form", [calc.out EXCEPT !.before = calc.out.Draft]
                               @@ [initialQuote |-> initialQuote,
                                   state |-> formStateOf(initialQuote)])
    /\ UNCHANGED appVars

\* saveAsDraft with isEditing: params {action: 'update_draft', quote}
SaveUnchanged ==
    /\ calc.fn = "form"
    /\ Applied("params",
               [Draft |-> calc.out.Draft, before |-> calc.out.before,
                quote |-> draftQuoteOf(calc.out.initialQuote.id,
                                       calc.out.state)])
    /\ UNCHANGED appVars

\* the focus callback, action 'update_draft'
UpdateDraft ==
    /\ calc.fn = "params"
    /\ Applied("saved",
               [Draft |-> MapReplace(calc.out.Draft, calc.out.quote.id,
                                     calc.out.quote),
                before |-> calc.out.before])
    /\ UNCHANGED appVars

NextRoundTrip ==
    \/ StoreDraft
    \/ OpenDraft
    \/ SaveUnchanged
    \/ UpdateDraft

RoundTripInit ==
    /\ AppInit
    /\ calc \in [fn : {"input"},
                 in : [state : FormStates, position : {1, 2}],
                 out : {<<>>}]

SpecRoundTrip == RoundTripInit /\ [][NextRoundTrip]_vars

\* C28: a draft opened and saved without a change leaves the list of drafts
\* as it was: the same drafts in the same order, every stored field of the
\* edited one equal to what it was, vatPercentage, depositPercentage and
\* amount included.
RoundTripKeepsDraft ==
    (calc.fn = "saved") => calc.out.Draft = calc.out.before

====
